---------------------------- MODULE Spec2Model ----------------------------
(***************************************************************************)
(* Patchly: binary delta engine (rolling hash, content hash, block index,  *)
(* eager and streaming diff, patch container, eager and streaming apply).  *)
(*                                                                         *)
(* Representation of machine integers:                                     *)
(*   - a u64 content hash is its 8 little-endian bytes (a tuple of 8       *)
(*     values in 0..255), so that wrapping 64-bit arithmetic and           *)
(*     to_le_bytes are computed exactly;                                   *)
(*   - sizes, offsets and lengths are naturals; the inputs enumerated      *)
(*     keep them far below 2^31.                                           *)
(* Rust slices are 0-based; sequences here are 1-based, so byte i of a     *)
(* slice is element i+1 of the sequence.                                   *)
(***************************************************************************)
EXTENDS Integers, Sequences, FiniteSets, TLC

(***************************************************************************)
(* Bounds of the model.                                                    *)
(***************************************************************************)
\* largest block (window) size
MaxBlock == 4
\* a window long enough for both running sums to pass the modulus
LongBlock == 260
\* a window whose bytes, all 0xFF, sum to less than 0xFF above the modulus
WrapBlock == 257
\* the largest window size in use: the default block size
MaxWindow == 4096
\* largest number of roll() calls after a seed
MaxRoll == 3
\* largest total number of bytes fed to a HashBuilder
MaxHashLen == 6
\* largest single chunk handed to a streaming operation
MaxChunk == 3
\* eager round trip: longest source and target, longest foreign source
MaxLen == 4
MaxOther == 2
\* streaming diff: longest source and target fed
MaxStreamLen == 4
\* streaming applier: most source chunks, most instructions of a patch
MaxSrcChunks == 2
MaxPatchInstr == 2
\* container: most instructions of a serialized patch
MaxWireInstr == 2
\* whole blocks handed to the index, to the diff, when the blocks collide
MaxTieBlocks == 2
\* PatchBuilder: bytes of source, of target handed in
MaxBuilderLen == 3
\* PatchApplier life cycle: source chunks handed in
MaxLcChunks == 1
\* applier against apply_patch: source chunks, instructions of a patch
MaxRefineChunks == 2
MaxRefineInstr == 2
\* chunk buffer: chunks pushed, largest small offset and length read
MaxBufChunks == 3
MaxBufRead == 4
\* usize::MAX, scaled to the integers at hand (2^32 - 1 on wasm32, 2^64 - 1
\* on a 64-bit target)
UsizeMax == 2147483646
\* DEFAULT_CHUNK_SIZE is 4096 in lib.rs; the builder is modelled with a small
\* block size, so that short inputs hold complete blocks
DEFAULT_CHUNK_SIZE == 2
\* the integers read from a container are exact below this value
MaxValue == 1073741824
\* patches built by hand: longest source, most instructions
MaxApplyLen == 1
MaxInstr == 2

\* The byte values used as input data: both extremes of u8.
Byte == {0, 255}

\* All byte strings of length at most n / exactly n.
BytesUpTo(n) == UNION {[1..k -> Byte] : k \in 0..n}
BytesOfLen(n) == [1..n -> Byte]

\* s[from..to) of a Rust slice (0-based, half open).
Slice(s, from, to) == SubSeq(s, from + 1, to)

Min(a, b) == IF a <= b THEN a ELSE b

(***************************************************************************)
(* Bit operations on naturals.                                             *)
(***************************************************************************)
RECURSIVE BitXor(_, _)
BitXor(x, y) ==
    IF x = 0 THEN y
    ELSE IF y = 0 THEN x
    ELSE (((x % 2) + (y % 2)) % 2) + 2 * BitXor(x \div 2, y \div 2)

RECURSIVE BitOr(_, _)
BitOr(x, y) ==
    IF x = 0 THEN y
    ELSE IF y = 0 THEN x
    ELSE (IF x % 2 = 1 \/ y % 2 = 1 THEN 1 ELSE 0) + 2 * BitOr(x \div 2, y \div 2)

(***************************************************************************)
(* Content hash: FNV-1a, 64 bit (format/patch_format.rs).                  *)
(***************************************************************************)
\* 0xcbf29ce484222325, little-endian bytes
FNV_OFFSET == <<37, 35, 34, 132, 228, 156, 242, 203>>
\* 0x100000001b3, little-endian bytes
FNV_PRIME == <<179, 1, 0, 0, 0, 1, 0, 0>>

\* sum of a[i] * b[k - i] for i in 0..k (0-based limbs): column k of a product
RECURSIVE Column(_, _, _, _)
Column(a, b, k, i) ==
    IF i > k THEN 0 ELSE a[i + 1] * b[k - i + 1] + Column(a, b, k, i + 1)

RECURSIVE MulLimbs(_, _, _, _)
MulLimbs(a, b, k, carry) ==
    IF k = 8 THEN <<>>
    ELSE LET v == Column(a, b, k, 0) + carry
         IN  <<v % 256>> \o MulLimbs(a, b, k + 1, v \div 256)

\* u64::wrapping_mul: the low 64 bits of the product
wrapping_mul(a, b) == MulLimbs(a, b, 0, 0)

\* hash ^= byte as u64; hash = hash.wrapping_mul(FNV_PRIME)
HashStep(hash, byte) ==
    wrapping_mul([hash EXCEPT ![1] = BitXor(hash[1], byte)], FNV_PRIME)

\* the loop `for &byte in data` started from `hash`
RECURSIVE HashFold(_, _)
HashFold(hash, data) ==
    IF data = <<>> THEN hash
    ELSE HashFold(HashStep(hash, Head(data)), Tail(data))

calculate_hash(data) == HashFold(FNV_OFFSET, data)

\* HashBuilder: the state is the field `hash`
HashBuilder_new == FNV_OFFSET
\* update that restarts from the offset basis on every call
HashBuilder_update_restart(hash, data) == HashFold(FNV_OFFSET, data)
HashBuilder_update(hash, data) == HashFold(hash, data)
HashBuilder_finalize(hash) == hash

(***************************************************************************)
(* Rolling hash (diff/rolling_hash.rs).                                    *)
(***************************************************************************)
MODULUS == 65521

RollingHash_new(window_size) ==
    [sum_a |-> 0, sum_b |-> 0, window_size |-> window_size]

\* (self.sum_b << 16) | self.sum_a on u32, as the pair <<high, low>> of its
\* 16-bit halves: the shift drops the high 16 bits of sum_b
digest(rh) ==
    <<BitOr(rh.sum_b % 65536, rh.sum_a \div 65536), BitOr(0, rh.sum_a % 65536)>>

\* the iterations i .. n-1 (0-based) of the loop of hash_chunk, in order;
\* a range of several iterations is done as its first half, then its second
\* (hash_chunk never changes window_size: the test on it is always true and
\* only makes TLC finish the first half before it starts the second)
RECURSIVE HashChunkLoop(_, _, _, _)
HashChunkLoop(rh, data, i, n) ==
    IF i >= n THEN rh
    ELSE IF n = i + 1
    THEN [rh EXCEPT
            !.sum_a = (rh.sum_a + data[i + 1]) % MODULUS,
            !.sum_b = (rh.sum_b + (rh.window_size - i) * data[i + 1]) % MODULUS]
    ELSE LET mid == i + ((n - i) \div 2)
             half == HashChunkLoop(rh, data, i, mid)
         IN  IF half.window_size = rh.window_size
             THEN HashChunkLoop(half, data, mid, n)
             ELSE rh

\* hash_chunk: the hasher after the call (the value returned is its digest)
hash_chunk(rh, data) ==
    HashChunkLoop([rh EXCEPT !.sum_a = 0, !.sum_b = 0], data, 0, Len(data))

\* roll with sum_b updated from the old sum_a
roll_stale_sum_a(rh, old_byte, new_byte) ==
    LET a == (rh.sum_a + MODULUS - (old_byte % MODULUS) + new_byte) % MODULUS
        b == (rh.sum_b + MODULUS - ((rh.window_size * old_byte) % MODULUS) + rh.sum_a)
                % MODULUS
    IN  [rh EXCEPT !.sum_a = a, !.sum_b = b]

\* roll: the hasher after the call (the value returned is its digest)
roll(rh, old_byte, new_byte) ==
    LET a == (rh.sum_a + MODULUS - (old_byte % MODULUS) + new_byte) % MODULUS
        b == (rh.sum_b + MODULUS - ((rh.window_size * old_byte) % MODULUS) + a) % MODULUS
    IN  [rh EXCEPT !.sum_a = a, !.sum_b = b]

\* x is a value of u32: 0 <= x < 2^32
InU32(x) == x >= 0 /\ x \div 65536 < 65536

\* the iterations i .. n-1 of the loop of hash_chunk with the value of every
\* sub-expression before it is reduced: t.rh is the hasher, t.ok tells
\* that every value computed so far is a value of u32 (of usize for the
\* weight)
RECURSIVE HashChunkSteps(_, _, _, _)
HashChunkSteps(t, data, i, n) ==
    IF i >= n THEN t
    ELSE IF n = i + 1
    THEN LET byte == data[i + 1]
             a == t.rh.sum_a + byte
             weight == t.rh.window_size - i
             product == weight * byte
             b == t.rh.sum_b + product
         IN  [rh |-> [t.rh EXCEPT !.sum_a = a % MODULUS, !.sum_b = b % MODULUS],
              ok |-> /\ t.ok /\ InU32(a) /\ weight >= 0 /\ InU32(product)
                     /\ InU32(b)]
    ELSE LET mid == i + ((n - i) \div 2)
             half == HashChunkSteps(t, data, i, mid)
         IN  IF half.rh.window_size = t.rh.window_size
             THEN HashChunkSteps(half, data, mid, n)
             ELSE t

\* roll that subtracts the old byte without adding the modulus first
RollSteps_without_modulus(rh, old_byte, new_byte) ==
    LET a1 == rh.sum_a - (old_byte % MODULUS)
        a2 == a1 + new_byte
        a == a2 % MODULUS
        product == rh.window_size * old_byte
        b1 == rh.sum_b - (product % MODULUS)
        b2 == b1 + a
    IN  [rh |-> [rh EXCEPT !.sum_a = a, !.sum_b = b2 % MODULUS],
         ok |-> \A x \in {a1, a2, product, b1, b2} : InU32(x)]

\* roll with the value of every sub-expression, in the order of evaluation
RollSteps(rh, old_byte, new_byte) ==
    LET a1 == rh.sum_a + MODULUS
        a2 == a1 - (old_byte % MODULUS)
        a3 == a2 + new_byte
        a == a3 % MODULUS
        product == rh.window_size * old_byte
        b1 == rh.sum_b + MODULUS
        b2 == b1 - (product % MODULUS)
        b3 == b2 + a
    IN  [rh |-> [rh EXCEPT !.sum_a = a, !.sum_b = b3 % MODULUS],
         ok |-> \A x \in {a1, a2, a3, product, b1, b2, b3} : InU32(x)]

\* the weak hash of a block, on a fresh hasher
WeakHash(block_size, block) == digest(hash_chunk(RollingHash_new(block_size), block))

(***************************************************************************)
(* Patch container, in-memory form (format/patch_format.rs).               *)
(***************************************************************************)
CopyInstr(offset, length) == [type |-> "Copy", offset |-> offset, length |-> length]
InsertInstr(data) == [type |-> "Insert", data |-> data]

Patch_new(chunk_size, source_size, source_hash, target_size) ==
    [chunk_size |-> chunk_size, source_size |-> source_size,
     source_hash |-> source_hash, target_size |-> target_size,
     instructions |-> <<>>]

add_copy(patch, offset, length) ==
    [patch EXCEPT !.instructions = Append(@, CopyInstr(offset, length))]

\* add_insert that appends empty data too
add_insert_any(patch, data) ==
    [patch EXCEPT !.instructions = Append(@, InsertInstr(data))]

add_insert(patch, data) ==
    IF data # <<>>
    THEN [patch EXCEPT !.instructions = Append(@, InsertInstr(data))]
    ELSE patch

\* validate_source that compares the sizes only
validate_source_size_only(patch, source_size, source_hash) ==
    IF source_size # patch.source_size
    THEN [kind |-> "SizeMismatch", expected |-> patch.source_size, actual |-> source_size]
    ELSE [kind |-> "Ok"]

\* Patch::validate_source: "Ok" or the ValidationError
validate_source(patch, source_size, source_hash) ==
    IF source_size # patch.source_size
    THEN [kind |-> "SizeMismatch", expected |-> patch.source_size, actual |-> source_size]
    ELSE IF source_hash # patch.source_hash
    THEN [kind |-> "HashMismatch", expected |-> patch.source_hash, actual |-> source_hash]
    ELSE [kind |-> "Ok"]

(***************************************************************************)
(* Block matcher of the eager path (diff/matcher.rs).                      *)
(***************************************************************************)
\* HashMap entry(key).or_insert_with(Vec::new).push(v)
MapPush(map, key, v) ==
    [k \in DOMAIN map \cup {key} |->
        IF k = key
        THEN (IF key \in DOMAIN map THEN Append(map[key], v) ELSE <<v>>)
        ELSE map[k]]

\* HashMap::new(): the function with the empty domain
EmptyMap == [k \in {} |-> <<>>]

\* the while loop of build_signatures from `offset` on
RECURSIVE BuildSignaturesLoop(_, _, _, _)
BuildSignaturesLoop(source_data, chunk_size, offset, signatures) ==
    IF offset + chunk_size <= Len(source_data)
    THEN LET chunk == Slice(source_data, offset, offset + chunk_size)
             weak_hash == WeakHash(chunk_size, chunk)
         IN  BuildSignaturesLoop(source_data, chunk_size, offset + chunk_size,
                MapPush(signatures, weak_hash, [offset |-> offset, weak_hash |-> weak_hash]))
    ELSE signatures

\* build_signatures that leaves out the block ending the source
build_signatures_but_last(source_data, chunk_size) ==
    IF Len(source_data) < chunk_size THEN EmptyMap
    ELSE BuildSignaturesLoop(SubSeq(source_data, 1, Len(source_data) - 1),
                             chunk_size, 0, EmptyMap)

build_signatures(source_data, chunk_size) ==
    IF Len(source_data) < chunk_size THEN EmptyMap
    ELSE BuildSignaturesLoop(source_data, chunk_size, 0, EmptyMap)

BlockMatcher_new(source, chunk_size) ==
    [chunk_size |-> chunk_size,
     signatures |-> build_signatures(source, chunk_size),
     source_data |-> source]

\* verify_match that trusts the weak hash
verify_match_unchecked(m, source_offset, target, target_offset) == TRUE

\* byte-by-byte comparison of the source chunk with the target window
verify_match(m, source_offset, target, target_offset) ==
    Slice(m.source_data, source_offset, source_offset + m.chunk_size)
        = Slice(target, target_offset, target_offset + m.chunk_size)

\* `for candidate in candidates { if verify_match .. { push; break } }`:
\* the matches found at `pos` (none or one)
RECURSIVE FirstVerified(_, _, _, _, _)
FirstVerified(m, candidates, i, target, pos) ==
    IF i > Len(candidates) THEN <<>>
    ELSE IF verify_match(m, candidates[i].offset, target, pos)
    THEN <<[source_offset |-> candidates[i].offset, target_offset |-> pos,
            length |-> m.chunk_size]>>
    ELSE FirstVerified(m, candidates, i + 1, target, pos)

\* stable insertion of x by key target_offset into a sorted sequence
RECURSIVE InsertByTargetOffset(_, _)
InsertByTargetOffset(sorted, x) ==
    IF sorted = <<>> THEN <<x>>
    ELSE IF sorted[Len(sorted)].target_offset <= x.target_offset
    THEN Append(sorted, x)
    ELSE Append(InsertByTargetOffset(SubSeq(sorted, 1, Len(sorted) - 1), x),
                sorted[Len(sorted)])

\* sort_by_key(|m| m.target_offset): a stable sort
RECURSIVE SortByTargetOffset(_)
SortByTargetOffset(ms) ==
    IF ms = <<>> THEN <<>>
    ELSE InsertByTargetOffset(SortByTargetOffset(SubSeq(ms, 1, Len(ms) - 1)), ms[Len(ms)])

\* the `loop` of find_matches, entered at `pos` with the hasher on that window
RECURSIVE FindMatchesLoop(_, _, _, _, _)
FindMatchesLoop(m, target, hasher, pos, matches) ==
    LET current_hash == digest(hasher)
        found == IF current_hash \in DOMAIN m.signatures
                 THEN FirstVerified(m, m.signatures[current_hash], 1, target, pos)
                 ELSE <<>>
        next == pos + 1
    IN  IF next + m.chunk_size > Len(target)
        THEN matches \o found
        ELSE FindMatchesLoop(m, target,
                roll(hasher, target[next], target[next + m.chunk_size]),
                next, matches \o found)

\* find_matches that looks at the first window only
find_matches_first_window(m, target) ==
    IF Len(target) < m.chunk_size \/ DOMAIN m.signatures = {}
    THEN <<>>
    ELSE LET current_hash ==
                digest(hash_chunk(RollingHash_new(m.chunk_size), Slice(target, 0, m.chunk_size)))
         IN  IF current_hash \in DOMAIN m.signatures
             THEN FirstVerified(m, m.signatures[current_hash], 1, target, 0)
             ELSE <<>>

find_matches(m, target) ==
    IF Len(target) < m.chunk_size \/ DOMAIN m.signatures = {}
    THEN <<>>
    ELSE SortByTargetOffset(
            FindMatchesLoop(m, target,
                hash_chunk(RollingHash_new(m.chunk_size), Slice(target, 0, m.chunk_size)),
                0, <<>>))

(***************************************************************************)
(* Eager diff generator and patch applier (diff/patch.rs).                 *)
(***************************************************************************)
\* the for loop of optimize_macthes over the sorted matches
RECURSIVE OptimizeLoop(_, _, _, _)
OptimizeLoop(sorted, i, last_end, result) ==
    IF i > Len(sorted) THEN result
    ELSE IF sorted[i].target_offset < last_end
    THEN OptimizeLoop(sorted, i + 1, last_end, result)
    ELSE OptimizeLoop(sorted, i + 1, sorted[i].target_offset + sorted[i].length,
                      Append(result, sorted[i]))

\* optimize_macthes that sorts and keeps every match
optimize_macthes_keep_all(matches) ==
    IF matches = <<>> THEN <<>>
    ELSE SortByTargetOffset(matches)

optimize_macthes(matches) ==
    IF matches = <<>> THEN <<>>
    ELSE OptimizeLoop(SortByTargetOffset(matches), 1, 0, <<>>)

\* the for loop of generate_instructions, then the trailing insert
RECURSIVE GenerateLoop(_, _, _, _, _)
GenerateLoop(patch, target, optimized, i, current_pos) ==
    IF i > Len(optimized)
    THEN IF current_pos < Len(target)
         THEN add_insert(patch, Slice(target, current_pos, Len(target)))
         ELSE patch
    ELSE LET m == optimized[i]
             gapped == IF m.target_offset > current_pos
                       THEN add_insert(patch, Slice(target, current_pos, m.target_offset))
                       ELSE patch
         IN  GenerateLoop(add_copy(gapped, m.source_offset, m.length), target,
                          optimized, i + 1, m.target_offset + m.length)

generate_instructions(patch, target, matches) ==
    GenerateLoop(patch, target, optimize_macthes(matches), 1, 0)

generate_patch_with_chunk_size(source, target, chunk_size) ==
    LET patch == Patch_new(chunk_size, Len(source), calculate_hash(source), Len(target))
        matches == find_matches(BlockMatcher_new(source, chunk_size), target)
    IN  IF target = <<>> THEN patch
        ELSE IF Len(source) < chunk_size THEN add_insert(patch, target)
        ELSE IF matches = <<>> THEN add_insert(patch, target)
        ELSE generate_instructions(patch, target, matches)

\* The value apply_patch returns:
\*   [kind |-> "Ok", output]  or  [kind |-> "Err", err]  or  [kind |-> "Panic"]
\* (a slice index past the end of `source` aborts the call), together with
\* what the call did: the source indices it read and the number of
\* instructions it executed.
ApplyOk(output, reads, executed) ==
    [kind |-> "Ok", output |-> output, reads |-> reads, executed |-> executed]
ApplyErr(err, reads, executed) ==
    [kind |-> "Err", err |-> err, reads |-> reads, executed |-> executed]
ApplyPanic(reads, executed) ==
    [kind |-> "Panic", reads |-> reads, executed |-> executed]

\* usize addition: a + b is more than usize::MAX; and what a + b is in a
\* build without overflow checks (a build with them panics instead)
AddOverflows(a, b) == a > UsizeMax - b
wrapping_add(a, b) == IF AddOverflows(a, b) THEN a - (UsizeMax - b) - 1 ELSE a + b

\* `if end > source.len()` of apply_patch, negated
CopyInBounds_start_only(source, start, end) == ~(start > Len(source))
CopyInBounds(source, start, end) == ~(end > Len(source))

\* `if output.len() != patch.target_size as usize`
TargetSizeMismatch_too_long_only(output, patch) == Len(output) > patch.target_size
TargetSizeMismatch(output, patch) == Len(output) # patch.target_size

\* the for loop of apply_patch from instruction idx (0-based) on, then the
\* final size check
RECURSIVE ApplyLoop(_, _, _, _, _, _)
ApplyLoop(source, patch, idx, output, reads, overflow_checks) ==
    IF idx >= Len(patch.instructions)
    THEN IF TargetSizeMismatch(output, patch)
         THEN ApplyErr([kind |-> "SizeMismatch", expected |-> patch.target_size,
                        actual |-> Len(output)], reads, idx)
         ELSE ApplyOk(output, reads, idx)
    ELSE LET instruction == patch.instructions[idx + 1]
         IN  IF instruction.type = "Copy"
             THEN LET start == instruction.offset
                      end == wrapping_add(start, instruction.length)
                  IN  IF overflow_checks /\ AddOverflows(start, instruction.length)
                      THEN ApplyPanic(reads, idx)
                      ELSE IF ~CopyInBounds(source, start, end)
                      THEN ApplyErr([kind |-> "CopyOutOfBounds",
                                     instruction_index |-> idx,
                                     offset |-> instruction.offset,
                                     length |-> instruction.length,
                                     source_len |-> Len(source)], reads, idx)
                      ELSE IF end > Len(source) \/ start > end
                      THEN ApplyPanic(reads \cup (start .. end - 1), idx)
                      ELSE ApplyLoop(source, patch, idx + 1,
                                     output \o Slice(source, start, end),
                                     reads \cup (start .. end - 1), overflow_checks)
             ELSE ApplyLoop(source, patch, idx + 1, output \o instruction.data,
                            reads, overflow_checks)

\* apply_patch in a build with or without overflow checks
apply_patch_build(source, patch, overflow_checks) ==
    LET v == validate_source(patch, Len(source), calculate_hash(source))
    IN  IF v.kind # "Ok"
        THEN ApplyErr([kind |-> "ValidationFailed", error |-> v], {}, 0)
        ELSE ApplyLoop(source, patch, 0, <<>>, {}, overflow_checks)

\* apply_patch on a patch none of whose COPY ranges overflows usize: the
\* two builds do the same
apply_patch(source, patch) == apply_patch_build(source, patch, FALSE)

(***************************************************************************)
(* Block index of the streaming path (diff/block_index.rs).                *)
(***************************************************************************)
BlockIndex_with_block_size(block_size) ==
    [block_size |-> block_size, index |-> EmptyMap, bytes_indexed |-> 0,
     pending |-> <<>>]

\* the while loop of add_chunk over `data` from `offset` on; the index after
\* it, with the pending bytes saved (`pending` was emptied by mem::take)
RECURSIVE AddChunkLoop(_, _, _)
AddChunkLoop(bi, data, offset) ==
    IF offset + bi.block_size <= Len(data)
    THEN LET block == Slice(data, offset, offset + bi.block_size)
             weak_hash == WeakHash(bi.block_size, block)
             strong_hash == calculate_hash(block)
         IN  AddChunkLoop(
                [bi EXCEPT
                    !.index = MapPush(@, weak_hash,
                                [offset |-> bi.bytes_indexed, strong_hash |-> strong_hash]),
                    !.bytes_indexed = @ + bi.block_size],
                data, offset + bi.block_size)
    ELSE IF offset < Len(data)
    THEN [bi EXCEPT !.pending = Slice(data, offset, Len(data))]
    ELSE bi

\* add_chunk without the pending bytes of the chunk before
add_chunk_drop_pending(bi, chunk) ==
    AddChunkLoop([bi EXCEPT !.pending = <<>>], chunk, 0)

add_chunk(bi, chunk) ==
    AddChunkLoop([bi EXCEPT !.pending = <<>>], bi.pending \o chunk, 0)

\* finalize: the index after the call (the value returned is bytes_indexed)
BlockIndex_finalize(bi) == [bi EXCEPT !.pending = <<>>]

lookup(bi, weak_hash) ==
    IF weak_hash \in DOMAIN bi.index THEN bi.index[weak_hash] ELSE <<>>

\* Option<T>
None == [some |-> FALSE]
Some(v) == [some |-> TRUE, val |-> v]

RECURSIVE FindStrong(_, _, _)
FindStrong(entries, i, target_strong_hash) ==
    IF i > Len(entries) THEN None
    ELSE IF entries[i].strong_hash = target_strong_hash THEN Some(entries[i].offset)
    ELSE FindStrong(entries, i + 1, target_strong_hash)

\* find_verified_match without the strong hash comparison
find_weak_match(bi, weak_hash, target_block) ==
    LET entries == lookup(bi, weak_hash)
    IN  IF entries = <<>> THEN None ELSE Some(entries[1].offset)

find_verified_match(bi, weak_hash, target_block) ==
    LET entries == lookup(bi, weak_hash)
    IN  IF entries = <<>> THEN None
        ELSE FindStrong(entries, 1, calculate_hash(target_block))

(***************************************************************************)
(* Streaming diff (diff/streaming_diff.rs).                                *)
(***************************************************************************)
StreamingDiff_new(index, source_size) ==
    [index |-> index, block_size |-> index.block_size,
     hasher |-> RollingHash_new(index.block_size),
     pending_insert |-> <<>>, instructions |-> <<>>, target_position |-> 0,
     source_size |-> source_size]

\* `if !offsets.is_empty()` of try_match_block: whether the current block is
\* taken as a match of the first entry found under its weak hash
BlockMatches(sd, block, offsets) == offsets # <<>>

try_match_block(sd) ==
    IF Len(sd.pending_insert) < sd.block_size THEN sd
    ELSE LET block == Slice(sd.pending_insert, 0, sd.block_size)
             hasher == hash_chunk(sd.hasher, block)
             offsets == lookup(sd.index, digest(hasher))
             n == Len(sd.instructions)
         IN  IF BlockMatches(sd, block, offsets)
             THEN [sd EXCEPT
                    !.hasher = hasher,
                    !.instructions = Append(@, CopyInstr(offsets[1].offset, sd.block_size)),
                    !.pending_insert = Slice(@, sd.block_size, Len(@)),
                    !.target_position = @ + sd.block_size]
             ELSE [sd EXCEPT
                    !.hasher = hasher,
                    !.pending_insert = Tail(@),
                    !.instructions =
                        IF n > 0 /\ sd.instructions[n].type = "Insert"
                        THEN [@ EXCEPT ![n].data = Append(@, Head(sd.pending_insert))]
                        ELSE Append(@, InsertInstr(<<Head(sd.pending_insert)>>)),
                    !.target_position = @ + 1]

\* the loop of process_target_chunk that stops at a full block
RECURSIVE ProcessLoop_leaving_a_block(_)
ProcessLoop_leaving_a_block(sd) ==
    IF Len(sd.pending_insert) > sd.block_size
    THEN ProcessLoop_leaving_a_block(try_match_block(sd))
    ELSE sd

\* `while self.pending_insert.len() >= self.block_size { self.try_match_block() }`
RECURSIVE ProcessLoop(_)
ProcessLoop(sd) ==
    IF Len(sd.pending_insert) >= sd.block_size
    THEN ProcessLoop(try_match_block(sd))
    ELSE sd

\* process_target_chunk that forgets the bytes left by the chunk before
process_target_chunk_alone(sd, chunk) ==
    ProcessLoop([sd EXCEPT !.pending_insert = chunk])

process_target_chunk(sd, chunk) ==
    ProcessLoop([sd EXCEPT !.pending_insert = @ \o chunk])

RECURSIVE MergeLoop(_, _, _)
MergeLoop(instructions, i, merged) ==
    IF i > Len(instructions) THEN merged
    ELSE LET m == Len(merged)
             instruction == instructions[i]
         IN  IF m > 0 /\ merged[m].type = "Insert" /\ instruction.type = "Insert"
             THEN MergeLoop(instructions, i + 1,
                            [merged EXCEPT ![m].data = @ \o instruction.data])
             ELSE MergeLoop(instructions, i + 1, Append(merged, instruction))

merge_inserts(instructions) == MergeLoop(instructions, 1, <<>>)

\* finalize: the instruction list returned
StreamingDiff_finalize(sd) ==
    LET n == Len(sd.instructions)
        flushed ==
            IF sd.pending_insert # <<>>
            THEN IF n > 0 /\ sd.instructions[n].type = "Insert"
                 THEN [sd.instructions EXCEPT ![n].data = @ \o sd.pending_insert]
                 ELSE Append(sd.instructions, InsertInstr(sd.pending_insert))
            ELSE sd.instructions
    IN  merge_inserts(flushed)

(***************************************************************************)
(* Chunk buffer (utils/buffer.rs).                                         *)
(***************************************************************************)
ChunkBuffer_new == [chunks |-> <<>>, total_size |-> 0]

push_slice(buf, data) ==
    [chunks |-> Append(buf.chunks, data), total_size |-> buf.total_size + Len(data)]

push(buf, data) ==
    [chunks |-> Append(buf.chunks, data), total_size |-> buf.total_size + Len(data)]

\* the for loop of read_at from chunk i (1-based) on
RECURSIVE ReadAtLoop(_, _, _, _, _, _)
ReadAtLoop(chunks, i, result, current_offset, remaining, start_offset) ==
    IF i > Len(chunks) THEN result
    ELSE LET chunk_len == Len(chunks[i])
         IN  IF current_offset + chunk_len <= start_offset
             THEN ReadAtLoop(chunks, i + 1, result, current_offset + chunk_len,
                             remaining, start_offset)
             ELSE LET chunk_start == IF start_offset > current_offset
                                     THEN start_offset - current_offset ELSE 0
                      bytes_available == chunk_len - chunk_start
                      bytes_to_read == Min(remaining, bytes_available)
                      got == result \o Slice(chunks[i], chunk_start,
                                             chunk_start + bytes_to_read)
                  IN  IF remaining - bytes_to_read = 0 THEN got
                      ELSE ReadAtLoop(chunks, i + 1, got, current_offset + chunk_len,
                                      remaining - bytes_to_read,
                                      current_offset + chunk_len)

\* merge: the chunks end to end
RECURSIVE merge(_)
merge(buf) ==
    IF buf.chunks = <<>> THEN <<>>
    ELSE Head(buf.chunks) \o merge([buf EXCEPT !.chunks = Tail(@)])

ChunkBuffer_clear(buf) == [buf EXCEPT !.chunks = <<>>, !.total_size = 0]

\* read_at, as a build without overflow checks computes `offset + length`
read_at(buf, offset, length) ==
    IF wrapping_add(offset, length) > buf.total_size THEN None
    ELSE Some(ReadAtLoop(buf.chunks, 1, <<>>, 0, length, offset))

(***************************************************************************)
(* Patch container, serialized form (format/patch_format.rs).              *)
(***************************************************************************)
\* "PTCH"
MAGIC == <<80, 84, 67, 72>>
VERSION == 1
TYPE_COPY == 1
TYPE_INSERT == 2

\* to_le_bytes of an unsigned integer of `width` bytes
RECURSIVE to_le_bytes(_, _)
to_le_bytes(n, width) ==
    IF width = 0 THEN <<>> ELSE <<n % 256>> \o to_le_bytes(n \div 256, width - 1)

\* the bytes read with the most significant byte first
RECURSIVE from_be_bytes(_)
from_be_bytes(bytes) ==
    IF bytes = <<>> THEN 0
    ELSE LET high == from_be_bytes(SubSeq(bytes, 1, Len(bytes) - 1))
         IN  IF high >= MaxValue \div 256 THEN MaxValue
             ELSE bytes[Len(bytes)] + 256 * high

\* from_le_bytes; every value of MaxValue and more is read as MaxValue (the
\* data of the model is far shorter, so that such an offset or length
\* compares with every position as the value itself does)
RECURSIVE from_le_bytes(_)
from_le_bytes(bytes) ==
    IF bytes = <<>> THEN 0
    ELSE LET high == from_le_bytes(Tail(bytes))
         IN  IF high >= MaxValue \div 256 THEN MaxValue
             ELSE Head(bytes) + 256 * high

SerializeInstruction(instruction) ==
    IF instruction.type = "Copy"
    THEN <<TYPE_COPY>> \o to_le_bytes(instruction.offset, 8)
                       \o to_le_bytes(instruction.length, 4)
    ELSE <<TYPE_INSERT>> \o to_le_bytes(Len(instruction.data), 4) \o instruction.data

RECURSIVE SerializeInstructions(_)
SerializeInstructions(instructions) ==
    IF instructions = <<>> THEN <<>>
    ELSE SerializeInstruction(Head(instructions))
            \o SerializeInstructions(Tail(instructions))

\* serialize closing the instruction list with a zero byte
serialize_with_terminator(patch) ==
    MAGIC \o <<VERSION>> \o to_le_bytes(patch.chunk_size, 4)
          \o to_le_bytes(patch.source_size, 8) \o patch.source_hash
          \o to_le_bytes(patch.target_size, 8)
          \o SerializeInstructions(patch.instructions) \o <<0>>

\* Patch::serialize (writing to a Vec never fails); source_hash is kept as
\* its little-endian bytes
serialize(patch) ==
    MAGIC \o <<VERSION>> \o to_le_bytes(patch.chunk_size, 4)
          \o to_le_bytes(patch.source_size, 8) \o patch.source_hash
          \o to_le_bytes(patch.target_size, 8)
          \o SerializeInstructions(patch.instructions)

\* io::Result
IoOk(v) == [ok |-> TRUE, val |-> v]
IoErr(kind) == [ok |-> FALSE, err |-> kind]

\* Cursor::read_exact(n) at position pos: whether enough bytes remain
CanRead(data, pos, n) == pos + n <= Len(data)

\* the header read without the test of the version byte
ParseHeader_any_version(data) ==
    IF ~CanRead(data, 0, 4) THEN IoErr("UnexpectedEof")
    ELSE IF Slice(data, 0, 4) # MAGIC THEN IoErr("InvalidData")
    ELSE IF ~CanRead(data, 4, 1) THEN IoErr("UnexpectedEof")
    ELSE IF ~CanRead(data, 5, 4) THEN IoErr("UnexpectedEof")
    ELSE IF ~CanRead(data, 9, 8) THEN IoErr("UnexpectedEof")
    ELSE IF ~CanRead(data, 17, 8) THEN IoErr("UnexpectedEof")
    ELSE IF ~CanRead(data, 25, 8) THEN IoErr("UnexpectedEof")
    ELSE IoOk([chunk_size |-> from_le_bytes(Slice(data, 5, 9)),
               source_size |-> from_le_bytes(Slice(data, 9, 17)),
               source_hash |-> Slice(data, 17, 25),
               target_size |-> from_le_bytes(Slice(data, 25, 33)),
               instructions |-> <<>>])

\* the header part of parse / deserialize: the header fields (instructions
\* empty), the cursor then being at 33
ParseHeader(data) ==
    IF ~CanRead(data, 0, 4) THEN IoErr("UnexpectedEof")
    ELSE IF Slice(data, 0, 4) # MAGIC THEN IoErr("InvalidData")
    ELSE IF ~CanRead(data, 4, 1) THEN IoErr("UnexpectedEof")
    ELSE IF data[5] # VERSION THEN IoErr("InvalidData")
    ELSE IF ~CanRead(data, 5, 4) THEN IoErr("UnexpectedEof")
    ELSE IF ~CanRead(data, 9, 8) THEN IoErr("UnexpectedEof")
    ELSE IF ~CanRead(data, 17, 8) THEN IoErr("UnexpectedEof")
    ELSE IF ~CanRead(data, 25, 8) THEN IoErr("UnexpectedEof")
    ELSE IoOk([chunk_size |-> from_le_bytes(Slice(data, 5, 9)),
               source_size |-> from_le_bytes(Slice(data, 9, 17)),
               source_hash |-> Slice(data, 17, 25),
               target_size |-> from_le_bytes(Slice(data, 25, 33)),
               instructions |-> <<>>])

\* the instruction loop of PatchMetadata::parse with the cursor at pos: an
\* INSERT records where its data starts and the cursor skips its length
\* without looking at the data
RECURSIVE ParseInstructions(_, _, _)
ParseInstructions(data, pos, instructions) ==
    IF ~CanRead(data, pos, 1) THEN IoOk(instructions)
    ELSE IF data[pos + 1] = TYPE_COPY
    THEN IF ~CanRead(data, pos + 1, 8) \/ ~CanRead(data, pos + 9, 4)
         THEN IoErr("UnexpectedEof")
         ELSE ParseInstructions(data, pos + 13,
                Append(instructions,
                       CopyInstr(from_le_bytes(Slice(data, pos + 1, pos + 9)),
                                 from_le_bytes(Slice(data, pos + 9, pos + 13)))))
    ELSE IF data[pos + 1] = TYPE_INSERT
    THEN IF ~CanRead(data, pos + 1, 4) THEN IoErr("UnexpectedEof")
         ELSE LET length == from_le_bytes(Slice(data, pos + 1, pos + 5))
              IN  ParseInstructions(data, pos + 5 + length,
                     Append(instructions,
                            [type |-> "Insert", patch_offset |-> pos + 5,
                             length |-> length]))
    ELSE IoErr("InvalidData")

\* PatchMetadata::parse
parse(data) ==
    LET h == ParseHeader(data)
    IN  IF ~h.ok THEN h
        ELSE LET is == ParseInstructions(data, 33, <<>>)
             IN  IF ~is.ok THEN is
                 ELSE IoOk([h.val EXCEPT !.instructions = is.val])

\* the instruction loop of Patch::deserialize: an INSERT reads its data
RECURSIVE DeserializeInstructions(_, _, _)
DeserializeInstructions(data, pos, instructions) ==
    IF ~CanRead(data, pos, 1) THEN IoOk(instructions)
    ELSE IF data[pos + 1] = TYPE_COPY
    THEN IF ~CanRead(data, pos + 1, 8) \/ ~CanRead(data, pos + 9, 4)
         THEN IoErr("UnexpectedEof")
         ELSE DeserializeInstructions(data, pos + 13,
                Append(instructions,
                       CopyInstr(from_le_bytes(Slice(data, pos + 1, pos + 9)),
                                 from_le_bytes(Slice(data, pos + 9, pos + 13)))))
    ELSE IF data[pos + 1] = TYPE_INSERT
    THEN IF ~CanRead(data, pos + 1, 4) THEN IoErr("UnexpectedEof")
         ELSE LET length == from_le_bytes(Slice(data, pos + 1, pos + 5))
              IN  IF ~CanRead(data, pos + 5, length) THEN IoErr("UnexpectedEof")
                  ELSE DeserializeInstructions(data, pos + 5 + length,
                         Append(instructions,
                                InsertInstr(Slice(data, pos + 5, pos + 5 + length))))
    ELSE IoErr("InvalidData")

\* Patch::deserialize
deserialize(data) ==
    LET h == ParseHeader(data)
    IN  IF ~h.ok THEN h
        ELSE LET is == DeserializeInstructions(data, 33, <<>>)
             IN  IF ~is.ok THEN is
                 ELSE IoOk([h.val EXCEPT !.instructions = is.val])

(***************************************************************************)
(* Streaming applier (lib.rs, PatchApplier).                               *)
(***************************************************************************)
PatchApplier_new ==
    [source_buffer |-> ChunkBuffer_new, source_hasher |-> HashBuilder_new,
     patch_data |-> <<>>, patch_loaded |-> FALSE, instructions |-> <<>>,
     current_instruction |-> 0, instruction_offset |-> 0, output_written |-> 0,
     target_size |-> 0, prepared |-> FALSE]

PatchApplier_add_source_chunk(ap, chunk) ==
    [ap EXCEPT !.source_hasher = HashBuilder_update(@, chunk),
               !.source_buffer = push_slice(@, chunk)]

set_patch(ap, patch_data) ==
    [ap EXCEPT !.patch_data = patch_data, !.patch_loaded = TRUE]

\* what PatchApplier::validate_source returns: Ok(true) or a JsError
PatchApplier_validate_source(ap) ==
    IF ~ap.patch_loaded THEN [kind |-> "Err", msg |-> "Patch not loaded"]
    ELSE LET patch == deserialize(ap.patch_data)
         IN  IF ~patch.ok THEN [kind |-> "Err", msg |-> "Invalid patch"]
             ELSE IF validate_source(patch.val, ap.source_buffer.total_size,
                                     HashBuilder_finalize(ap.source_hasher)).kind = "Ok"
             THEN [kind |-> "Ok", val |-> TRUE]
             ELSE [kind |-> "Err", msg |-> "Validation failed"]

\* prepare: what it returns and the applier after it
prepare_result(ap) ==
    IF ~ap.patch_loaded THEN [kind |-> "Err", msg |-> "Patch not loaded"]
    ELSE IF ~parse(ap.patch_data).ok THEN [kind |-> "Err", msg |-> "Invalid patch"]
    ELSE [kind |-> "Ok"]

prepare(ap) ==
    IF prepare_result(ap).kind # "Ok" THEN ap
    ELSE LET patch == parse(ap.patch_data).val
         IN  [ap EXCEPT !.instructions = patch.instructions,
                        !.target_size = patch.target_size,
                        !.current_instruction = 0,
                        !.instruction_offset = 0,
                        !.output_written = 0,
                        !.prepared = TRUE]

has_more_output(ap) ==
    IF ~ap.prepared THEN FALSE
    ELSE ap.current_instruction < Len(ap.instructions)

\* the instruction is a COPY that ends past the buffered source
CopyPastSource(ap, instruction) ==
    /\ instruction.type = "Copy"
    /\ instruction.offset + instruction.length > ap.source_buffer.total_size

\* the while loop of next_output_chunk: the applier and the bytes collected
\* when it ends; `panic` when a slice of patch_data is out of range;
\* `skipped` counts the COPY reads for which read_at returned None and
\* `oob` tells that the loop came to a COPY that ends past the source
RECURSIVE NextOutputLoop(_, _, _, _, _)
NextOutputLoop(ap, result, max_size, skipped, oob) ==
    IF ~(Len(result) < max_size /\ ap.current_instruction < Len(ap.instructions))
    THEN [ap |-> ap, result |-> result, panic |-> FALSE, skipped |-> skipped,
          oob |-> oob]
    ELSE LET instruction == ap.instructions[ap.current_instruction + 1]
             length == instruction.length
             remaining_in_instruction == length - ap.instruction_offset
             space_in_result == max_size - Len(result)
             bytes_to_copy == Min(remaining_in_instruction, space_in_result)
             advanced ==
                IF ap.instruction_offset + bytes_to_copy >= length
                THEN [ap EXCEPT !.current_instruction = @ + 1,
                                !.instruction_offset = 0]
                ELSE [ap EXCEPT !.instruction_offset = @ + bytes_to_copy]
             seen == oob \/ CopyPastSource(ap, instruction)
         IN  IF instruction.type = "Copy"
             THEN LET start == instruction.offset + ap.instruction_offset
                      data == read_at(ap.source_buffer, start, bytes_to_copy)
                  IN  IF data.some
                      THEN NextOutputLoop(advanced, result \o data.val, max_size,
                                          skipped, seen)
                      ELSE NextOutputLoop(advanced, result, max_size,
                                          skipped + 1, seen)
             ELSE LET start == instruction.patch_offset + ap.instruction_offset
                      end == start + bytes_to_copy
                  IN  IF end > Len(ap.patch_data)
                      THEN [ap |-> ap, result |-> result, panic |-> TRUE,
                            skipped |-> skipped, oob |-> seen]
                      ELSE NextOutputLoop(advanced,
                             result \o Slice(ap.patch_data, start, end), max_size,
                             skipped, seen)

\* next_output_chunk that returns the bytes and leaves the cursor in place
next_output_chunk_in_place(ap, max_size) ==
    IF ~ap.prepared \/ ap.current_instruction >= Len(ap.instructions)
    THEN [ap |-> ap, result |-> <<>>, panic |-> FALSE, skipped |-> 0,
          oob |-> FALSE]
    ELSE [NextOutputLoop(ap, <<>>, max_size, 0, FALSE) EXCEPT !.ap = ap]

\* next_output_chunk that leaves output_written as it is
next_output_chunk_uncounted(ap, max_size) ==
    IF ~ap.prepared \/ ap.current_instruction >= Len(ap.instructions)
    THEN [ap |-> ap, result |-> <<>>, panic |-> FALSE, skipped |-> 0,
          oob |-> FALSE]
    ELSE NextOutputLoop(ap, <<>>, max_size, 0, FALSE)

\* next_output_chunk with room for one byte more than max_size
next_output_chunk_one_more(ap, max_size) ==
    IF ~ap.prepared \/ ap.current_instruction >= Len(ap.instructions)
    THEN [ap |-> ap, result |-> <<>>, panic |-> FALSE, skipped |-> 0,
          oob |-> FALSE]
    ELSE LET r == NextOutputLoop(ap, <<>>, max_size + 1, 0, FALSE)
         IN  IF r.panic THEN r
             ELSE [r EXCEPT !.ap.output_written = @ + Len(r.result)]

\* next_output_chunk: [ap: the applier after the call, result: the bytes
\* returned, panic: the call aborted, skipped, oob: see NextOutputLoop]
next_output_chunk(ap, max_size) ==
    IF ~ap.prepared \/ ap.current_instruction >= Len(ap.instructions)
    THEN [ap |-> ap, result |-> <<>>, panic |-> FALSE, skipped |-> 0,
          oob |-> FALSE]
    ELSE LET r == NextOutputLoop(ap, <<>>, max_size, 0, FALSE)
         IN  IF r.panic THEN r
             ELSE [r EXCEPT !.ap.output_written = @ + Len(r.result)]

\* expected_source_size, expected_target_size: what they return
expected_source_size(ap) ==
    IF ~ap.patch_loaded THEN [kind |-> "Err", msg |-> "Patch not loaded"]
    ELSE LET patch == deserialize(ap.patch_data)
         IN  IF ~patch.ok THEN [kind |-> "Err", msg |-> "Invalid patch"]
             ELSE [kind |-> "Ok", val |-> patch.val.source_size]

expected_target_size(ap) ==
    IF ~ap.patch_loaded THEN [kind |-> "Err", msg |-> "Patch not loaded"]
    ELSE LET patch == deserialize(ap.patch_data)
         IN  IF ~patch.ok THEN [kind |-> "Err", msg |-> "Invalid patch"]
             ELSE [kind |-> "Ok", val |-> patch.val.target_size]

add_patch_chunk(ap, chunk) == [ap EXCEPT !.patch_data = @ \o chunk]

\* finalize_patch: what it returns and the applier after it
finalize_patch_result(ap) ==
    IF Len(ap.patch_data) < 33 THEN [kind |-> "Err", msg |-> "Patch data too small"]
    ELSE [kind |-> "Ok"]

\* finalize_patch that loads whatever was accumulated
finalize_patch_any_length(ap) == [ap EXCEPT !.patch_loaded = TRUE]

finalize_patch(ap) ==
    IF Len(ap.patch_data) < 33 THEN ap
    ELSE [ap EXCEPT !.patch_loaded = TRUE]

PatchApplier_reset(ap) ==
    [ap EXCEPT !.source_buffer = ChunkBuffer_clear(@),
               !.source_hasher = HashBuilder_new,
               !.patch_data = <<>>,
               !.patch_loaded = FALSE,
               !.instructions = <<>>,
               !.current_instruction = 0,
               !.instruction_offset = 0,
               !.output_written = 0,
               !.target_size = 0,
               !.prepared = FALSE]

(***************************************************************************)
(* PatchBuilder (lib.rs).  The StreamingDiff it drives is the variant with *)
(* new(index), finalize(&mut self), has_output and take_output; its output *)
(* is the serialization of the instructions that are complete: every       *)
(* instruction but a trailing INSERT that may still grow, and all of them  *)
(* once finalize was called.  `diff` is of kind "None" or "Some"; in a     *)
(* Some it holds the StreamingDiff `sd`, the number `taken` of             *)
(* instructions handed out, and whether finalize was called.               *)
(***************************************************************************)
PatchBuilder_new ==
    [source_index |-> BlockIndex_with_block_size(DEFAULT_CHUNK_SIZE),
     source_hasher |-> HashBuilder_new,
     target_hasher |-> HashBuilder_new,
     source_size |-> 0, target_size |-> 0, target_total_size |-> 0,
     diff |-> [kind |-> "None"],
     source_finalized |-> FALSE,
     chunk_size |-> DEFAULT_CHUNK_SIZE,
     output_buffer |-> <<>>,
     header_written |-> FALSE,
     target_finalized |-> FALSE]

StreamingDiff_from_index(index) == StreamingDiff_new(index, 0)

\* the number of instructions of the diff that are complete
CompletedInstructions(d) ==
    LET n == Len(d.sd.instructions)
    IN  IF d.finalized \/ n = 0 \/ d.sd.instructions[n].type = "Copy" THEN n
        ELSE n - 1

StreamingDiff_has_output(d) == CompletedInstructions(d) > d.taken

\* take_output: the bytes returned
TakenOutput(d) ==
    SerializeInstructions(SubSeq(d.sd.instructions, d.taken + 1, CompletedInstructions(d)))

\* take_output: the diff after the call
StreamingDiff_take_output(d) == [d EXCEPT !.taken = CompletedInstructions(d)]

\* finalize(&mut self): the pending bytes become the trailing INSERT
StreamingDiff_finish(d) ==
    [d EXCEPT !.sd.instructions = StreamingDiff_finalize(d.sd),
              !.sd.pending_insert = <<>>,
              !.finalized = TRUE]

\* `if diff.has_output() { output_buffer.extend_from_slice(&diff.take_output()) }`
PullOutput(pb) ==
    IF StreamingDiff_has_output(pb.diff)
    THEN [pb EXCEPT !.output_buffer = @ \o TakenOutput(pb.diff),
                    !.diff = StreamingDiff_take_output(pb.diff)]
    ELSE pb

\* add_source_chunk without the source_finalized test
add_source_chunk_unguarded(pb, chunk) ==
    [pb EXCEPT !.source_hasher = HashBuilder_update(@, chunk),
               !.source_index = add_chunk(@, chunk),
               !.source_size = @ + Len(chunk)]

add_source_chunk(pb, chunk) ==
    IF pb.source_finalized THEN pb
    ELSE [pb EXCEPT !.source_hasher = HashBuilder_update(@, chunk),
                    !.source_index = add_chunk(@, chunk),
                    !.source_size = @ + Len(chunk)]

finalize_source(pb) ==
    IF pb.source_finalized THEN pb
    ELSE [pb EXCEPT
            !.source_index = BlockIndex_with_block_size(pb.chunk_size),
            !.diff = [kind |-> "Some",
                      sd |-> StreamingDiff_from_index(BlockIndex_finalize(pb.source_index)),
                      taken |-> 0, finalized |-> FALSE],
            !.source_finalized = TRUE]

set_target_size(pb, size) == [pb EXCEPT !.target_total_size = size]

add_target_chunk(pb, chunk) ==
    LET finalized == IF ~pb.source_finalized THEN finalize_source(pb) ELSE pb
        counted == [finalized EXCEPT !.target_hasher = HashBuilder_update(@, chunk),
                                     !.target_size = @ + Len(chunk)]
    IN  IF counted.diff.kind # "None"
        THEN PullOutput([counted EXCEPT !.diff.sd = process_target_chunk(@, chunk)])
        ELSE counted

finalize_target(pb) ==
    IF pb.target_finalized THEN pb
    ELSE LET pulled == IF pb.diff.kind # "None"
                       THEN PullOutput([pb EXCEPT !.diff = StreamingDiff_finish(@)])
                       ELSE pb
         IN  [pulled EXCEPT !.target_finalized = TRUE]

PatchBuilder_has_output(pb) == ~pb.header_written \/ pb.output_buffer # <<>>

\* the header flush_output writes first
BuilderHeader(pb) ==
    MAGIC \o <<1>> \o to_le_bytes(pb.chunk_size, 4)
          \o to_le_bytes(pb.source_size, 8)
          \o HashBuilder_finalize(pb.source_hasher)
          \o to_le_bytes(pb.target_total_size, 8)

\* flush_output that leaves the bytes it returns in the output buffer
flush_output_keep_buffer(pb, max_size, overflow_checks) ==
    LET result == IF ~pb.header_written THEN BuilderHeader(pb) ELSE <<>>
        written == [pb EXCEPT !.header_written = TRUE]
        space_remaining ==
            IF max_size >= Len(result) THEN max_size - Len(result) ELSE MaxValue
        bytes_to_take == Min(space_remaining, Len(pb.output_buffer))
    IN  IF max_size < Len(result) /\ overflow_checks
        THEN [pb |-> written, kind |-> "Panic", val |-> <<>>]
        ELSE [pb |-> written, kind |-> "Ok",
              val |-> result \o Slice(pb.output_buffer, 0, bytes_to_take)]

\* flush_output that writes the header without recording that it did
flush_output_unmarked(pb, max_size, overflow_checks) ==
    LET result == IF ~pb.header_written THEN BuilderHeader(pb) ELSE <<>>
        space_remaining ==
            IF max_size >= Len(result) THEN max_size - Len(result) ELSE MaxValue
        bytes_to_take == Min(space_remaining, Len(pb.output_buffer))
    IN  IF max_size < Len(result) /\ overflow_checks
        THEN [pb |-> pb, kind |-> "Panic", val |-> <<>>]
        ELSE [pb |-> [pb EXCEPT
                        !.output_buffer = Slice(@, bytes_to_take, Len(@))],
              kind |-> "Ok",
              val |-> result \o Slice(pb.output_buffer, 0, bytes_to_take)]

\* flush_output: the builder after the call and what the call returned.
\* `max_size - result.len()` is a usize subtraction: when the header is
\* longer than max_size it panics in a build with overflow checks and wraps
\* to a value near the top of usize in a build without (MaxValue stands for
\* it: it is above every buffer length).  header_written is set before.
flush_output(pb, max_size, overflow_checks) ==
    LET result == IF ~pb.header_written THEN BuilderHeader(pb) ELSE <<>>
        written == [pb EXCEPT !.header_written = TRUE]
        space_remaining ==
            IF max_size >= Len(result) THEN max_size - Len(result) ELSE MaxValue
        bytes_to_take == Min(space_remaining, Len(pb.output_buffer))
    IN  IF max_size < Len(result) /\ overflow_checks
        THEN [pb |-> written, kind |-> "Panic", val |-> <<>>]
        ELSE [pb |-> [written EXCEPT
                        !.output_buffer = Slice(@, bytes_to_take, Len(@))],
              kind |-> "Ok",
              val |-> result \o Slice(pb.output_buffer, 0, bytes_to_take)]

\* are_files_identical that compares the sizes only
are_files_identical_by_size(pb) == pb.source_size = pb.target_size

are_files_identical(pb) ==
    LET same_size == pb.source_size = pb.target_size
        same_hash == HashBuilder_finalize(pb.source_hasher)
                        = HashBuilder_finalize(pb.target_hasher)
    IN  same_size /\ same_hash

\* reset that leaves header_written as it is
PatchBuilder_reset_keep_header(pb) ==
    [pb EXCEPT
        !.source_index = BlockIndex_with_block_size(pb.chunk_size),
        !.source_hasher = HashBuilder_new,
        !.target_hasher = HashBuilder_new,
        !.source_size = 0, !.target_size = 0, !.target_total_size = 0,
        !.diff = [kind |-> "None"],
        !.source_finalized = FALSE,
        !.output_buffer = <<>>,
        !.target_finalized = FALSE]

PatchBuilder_reset(pb) ==
    [pb EXCEPT
        !.source_index = BlockIndex_with_block_size(pb.chunk_size),
        !.source_hasher = HashBuilder_new,
        !.target_hasher = HashBuilder_new,
        !.source_size = 0, !.target_size = 0, !.target_total_size = 0,
        !.diff = [kind |-> "None"],
        !.source_finalized = FALSE,
        !.output_buffer = <<>>,
        !.header_written = FALSE,
        !.target_finalized = FALSE]

(***************************************************************************)
(* State.  Each component is exercised by a specification of its own; the  *)
(* variables of the other components then keep their initial value.        *)
(***************************************************************************)
VARIABLES
    \* rolling hash: the hasher, the bytes s seen so far (the seeded window
    \* followed by every byte rolled in), the number of rolls, and the
    \* digest returned by the last call
    rh, win, rolls, rh_ret,
    \* content hash: the HashBuilder (its field `hash`) and the
    \* concatenation of the chunks given to update
    hb, hb_fed,
    \* eager path: the inputs, the patch (generated or built by hand), the
    \* source handed to apply_patch, what apply_patch returned, and the step
    source, target, chunk_size, patch, applied, result, pc,
    \* streaming path: the BlockIndex, the StreamingDiff (once the index is
    \* final), the source and target bytes fed so far, the instruction list
    \* returned by finalize, and the phase
    index, diff, source_fed, target_fed, instructions, phase,
    \* streaming applier: the PatchApplier, what the last call returned, and
    \* the bytes returned by next_output_chunk since the last prepare
    applier, ret, emitted,
    \* container: the Patch serialized, the bytes handed to the parsers (as
    \* serialized, cut short or with one byte replaced), the step, and what
    \* Patch::deserialize and PatchMetadata::parse returned for these bytes
    wire_patch, wire, wstep, decoded, parsed,
    \* block index queries: the last lookup or find_verified_match call, with
    \* its arguments and what it returned
    found,
    \* patch builder: the PatchBuilder and the last call made on it, with
    \* its arguments and what it returned
    builder, bret,
    \* patch builder, history of the calls since new() or reset(): the source
    \* bytes accepted, the target bytes handed in, the bytes pulled from the
    \* diff into the output buffer, and the bytes returned by flush_output
    bhist,
    \* chunk buffer: the ChunkBuffer and the last read_at call made on it,
    \* with its arguments and what it returned
    buffer, bufret

rollVars == <<rh, win, rolls, rh_ret>>
hashVars == <<hb, hb_fed>>
eagerVars == <<source, target, chunk_size, patch, applied, result, pc>>
streamVars == <<index, diff, source_fed, target_fed, instructions, phase>>
applierVars == <<applier, ret, emitted>>
wireVars == <<wire_patch, wire, wstep, decoded, parsed>>
queryVars == <<found>>
builderVars == <<builder, bret, bhist>>
bufferVars == <<buffer, bufret>>
vars ==
    <<rollVars, hashVars, eagerVars, streamVars, applierVars, wireVars, queryVars,
      builderVars, bufferVars>>

NoValue == [kind |-> "None"]

RollIdle ==
    rh = RollingHash_new(1) /\ win = <<>> /\ rolls = 0 /\ rh_ret = <<0, 0>>
HashIdle == hb = HashBuilder_new /\ hb_fed = <<>>
EagerIdle ==
    /\ source = <<>> /\ target = <<>> /\ chunk_size = 1
    /\ patch = Patch_new(1, 0, FNV_OFFSET, 0)
    /\ applied = <<>> /\ result = NoValue /\ pc = "idle"
StreamIdle ==
    /\ index = BlockIndex_with_block_size(1) /\ diff = NoValue
    /\ source_fed = <<>> /\ target_fed = <<>> /\ instructions = <<>>
    /\ phase = "idle"
ApplierIdle == applier = PatchApplier_new /\ ret = NoValue /\ emitted = <<>>
QueryIdle == found = NoValue
NoHistory == [source |-> <<>>, target |-> <<>>, pulled |-> <<>>, flushed |-> <<>>]
BuilderIdle == builder = PatchBuilder_new /\ bret = NoValue /\ bhist = NoHistory
BufferIdle == buffer = ChunkBuffer_new /\ bufret = NoValue
WireIdle ==
    /\ wire_patch = Patch_new(1, 0, FNV_OFFSET, 0) /\ wire = <<>> /\ wstep = "idle"
    /\ decoded = NoValue /\ parsed = NoValue

(***************************************************************************)
(* Rolling hash: hash_chunk seeds a window, roll slides it by one byte.    *)
(***************************************************************************)
\* The windows handed to hash_chunk: every byte string for the short window
\* sizes, the strings of period two for the long one.
Windows(window_size) ==
    IF window_size <= MaxBlock
    THEN BytesOfLen(window_size)
    ELSE {[i \in 1..window_size |-> period[((i - 1) % 2) + 1]] :
            period \in BytesOfLen(2)}

InitRolling ==
    /\ \E window_size \in (1..MaxBlock) \cup {LongBlock, WrapBlock, MaxWindow} :
        rh = RollingHash_new(window_size)
    /\ win = <<>> /\ rolls = 0 /\ rh_ret = <<0, 0>>
    /\ HashIdle /\ EagerIdle /\ StreamIdle /\ ApplierIdle /\ WireIdle /\ QueryIdle
    /\ BuilderIdle /\ BufferIdle

\* hash_chunk(data) on a window of exactly window_size bytes
HashChunk ==
    /\ \E data \in Windows(rh.window_size) :
        /\ rh' = hash_chunk(rh, data)
        /\ win' = data
    /\ rolls' = 0
    /\ rh_ret' = digest(rh')
    /\ UNCHANGED <<hashVars, eagerVars, streamVars, applierVars, wireVars, queryVars, builderVars, bufferVars>>

\* roll(old_byte, new_byte): old_byte is the byte leaving the window
Roll ==
    /\ win # <<>>
    /\ rolls < MaxRoll
    /\ \E new_byte \in Byte :
        /\ rh' = roll(rh, win[rolls + 1], new_byte)
        /\ win' = Append(win, new_byte)
    /\ rolls' = rolls + 1
    /\ rh_ret' = digest(rh')
    /\ UNCHANGED <<hashVars, eagerVars, streamVars, applierVars, wireVars, queryVars, builderVars, bufferVars>>

NextRolling == HashChunk \/ Roll
SpecRolling == InitRolling /\ [][NextRolling]_vars

(***************************************************************************)
(* Content hash: HashBuilder::new, update*, finalize.                      *)
(***************************************************************************)
InitContentHash ==
    /\ hb = HashBuilder_new /\ hb_fed = <<>>
    /\ RollIdle /\ EagerIdle /\ StreamIdle /\ ApplierIdle /\ WireIdle /\ QueryIdle
    /\ BuilderIdle /\ BufferIdle

HashUpdate ==
    /\ \E data \in BytesUpTo(MaxChunk) :
        /\ Len(hb_fed) + Len(data) <= MaxHashLen
        /\ hb' = HashBuilder_update(hb, data)
        /\ hb_fed' = hb_fed \o data
    /\ UNCHANGED <<rollVars, eagerVars, streamVars, applierVars, wireVars, queryVars, builderVars, bufferVars>>

NextContentHash == HashUpdate
SpecContentHash == InitContentHash /\ [][NextContentHash]_vars

(***************************************************************************)
(* Eager path, round trip: generate_patch_with_chunk_size(S, T, B), then   *)
(* apply_patch(S', patch) on the same or on another source.                *)
(***************************************************************************)
InitEager ==
    /\ source \in BytesUpTo(MaxLen)
    /\ target \in BytesUpTo(MaxLen)
    /\ chunk_size \in 1..MaxBlock
    /\ patch = Patch_new(1, 0, FNV_OFFSET, 0)
    /\ applied = <<>> /\ result = NoValue /\ pc = "input"
    /\ RollIdle /\ HashIdle /\ StreamIdle /\ ApplierIdle /\ WireIdle /\ QueryIdle
    /\ BuilderIdle /\ BufferIdle

GeneratePatch ==
    /\ pc = "input"
    /\ patch' = generate_patch_with_chunk_size(source, target, chunk_size)
    /\ pc' = "patch"
    /\ UNCHANGED <<source, target, chunk_size, applied, result>>
    /\ UNCHANGED <<rollVars, hashVars, streamVars, applierVars, wireVars, queryVars, builderVars, bufferVars>>

ApplyPatch ==
    /\ pc = "patch"
    /\ \E s \in {source} \cup BytesUpTo(MaxOther) :
        /\ applied' = s
        /\ result' = apply_patch(s, patch)
    /\ pc' = "applied"
    /\ UNCHANGED <<source, target, chunk_size, patch>>
    /\ UNCHANGED <<rollVars, hashVars, streamVars, applierVars, wireVars, queryVars, builderVars, bufferVars>>

NextEager == GeneratePatch \/ ApplyPatch
SpecEager == InitEager /\ [][NextEager]_vars

(***************************************************************************)
(* Eager path, patches built by hand with Patch::new, add_copy and         *)
(* add_insert (well formed or not), then apply_patch.  `source` is the     *)
(* file the header is made for, `target` is unused.                        *)
(***************************************************************************)
\* the literal data given to add_insert (empty data adds nothing)
InsertData == {<<>>, <<0>>, <<255, 0>>}

InitApply ==
    /\ source \in BytesUpTo(MaxApplyLen)
    /\ target = <<>>
    /\ chunk_size = 4
    /\ \E target_size \in 0..(MaxApplyLen + 1) :
        patch = Patch_new(chunk_size, Len(source), calculate_hash(source), target_size)
    /\ applied = <<>> /\ result = NoValue /\ pc = "patch"
    /\ RollIdle /\ HashIdle /\ StreamIdle /\ ApplierIdle /\ WireIdle /\ QueryIdle
    /\ BuilderIdle /\ BufferIdle

AddCopy ==
    /\ pc = "patch"
    /\ Len(patch.instructions) < MaxInstr
    /\ \E offset \in 0..MaxApplyLen, length \in 0..(MaxApplyLen + 1) :
        patch' = add_copy(patch, offset, length)
    /\ UNCHANGED <<source, target, chunk_size, applied, result, pc>>
    /\ UNCHANGED <<rollVars, hashVars, streamVars, applierVars, wireVars, queryVars, builderVars, bufferVars>>

AddInsert ==
    /\ pc = "patch"
    /\ Len(patch.instructions) < MaxInstr
    /\ \E data \in InsertData : patch' = add_insert(patch, data)
    /\ UNCHANGED <<source, target, chunk_size, applied, result, pc>>
    /\ UNCHANGED <<rollVars, hashVars, streamVars, applierVars, wireVars, queryVars, builderVars, bufferVars>>

ApplyBuilt ==
    /\ pc = "patch"
    /\ \E s \in BytesUpTo(MaxApplyLen) :
        /\ applied' = s
        /\ result' = apply_patch(s, patch)
    /\ pc' = "applied"
    /\ UNCHANGED <<source, target, chunk_size, patch>>
    /\ UNCHANGED <<rollVars, hashVars, streamVars, applierVars, wireVars, queryVars, builderVars, bufferVars>>

NextApply == AddCopy \/ AddInsert \/ ApplyBuilt
SpecApply == InitApply /\ [][NextApply]_vars

(***************************************************************************)
(* Streaming path: the source goes chunk by chunk into a BlockIndex, which *)
(* finalize freezes and hands to a StreamingDiff; the target goes chunk by *)
(* chunk into process_target_chunk; finalize returns the instructions.     *)
(***************************************************************************)
InitStream ==
    /\ \E block_size \in 1..MaxBlock : index = BlockIndex_with_block_size(block_size)
    /\ diff = NoValue
    /\ source_fed = <<>> /\ target_fed = <<>> /\ instructions = <<>>
    /\ phase = "source"
    /\ RollIdle /\ HashIdle /\ EagerIdle /\ ApplierIdle /\ WireIdle /\ QueryIdle
    /\ BuilderIdle /\ BufferIdle

IndexAddChunk ==
    /\ phase = "source"
    /\ \E chunk \in BytesUpTo(MaxChunk) :
        /\ Len(source_fed) + Len(chunk) <= MaxStreamLen
        /\ index' = add_chunk(index, chunk)
        /\ source_fed' = source_fed \o chunk
    /\ UNCHANGED <<diff, target_fed, instructions, phase>>
    /\ UNCHANGED <<rollVars, hashVars, eagerVars, applierVars, wireVars, queryVars, builderVars, bufferVars>>

\* BlockIndex::finalize, then StreamingDiff::new(index, source_size)
IndexFinalize ==
    /\ phase = "source"
    /\ index' = BlockIndex_finalize(index)
    /\ diff' = StreamingDiff_new(index', Len(source_fed))
    /\ phase' = "target"
    /\ UNCHANGED <<source_fed, target_fed, instructions>>
    /\ UNCHANGED <<rollVars, hashVars, eagerVars, applierVars, wireVars, queryVars, builderVars, bufferVars>>

ProcessTargetChunk ==
    /\ phase = "target"
    /\ \E chunk \in BytesUpTo(MaxChunk) :
        /\ Len(target_fed) + Len(chunk) <= MaxStreamLen
        /\ diff' = process_target_chunk(diff, chunk)
        /\ target_fed' = target_fed \o chunk
    /\ UNCHANGED <<index, source_fed, instructions, phase>>
    /\ UNCHANGED <<rollVars, hashVars, eagerVars, applierVars, wireVars, queryVars, builderVars, bufferVars>>

\* StreamingDiff::finalize consumes the diff and returns the instructions
DiffFinalize ==
    /\ phase = "target"
    /\ instructions' = StreamingDiff_finalize(diff)
    /\ phase' = "done"
    /\ UNCHANGED <<index, diff, source_fed, target_fed>>
    /\ UNCHANGED <<rollVars, hashVars, eagerVars, applierVars, wireVars, queryVars, builderVars, bufferVars>>

NextStream == IndexAddChunk \/ IndexFinalize \/ ProcessTargetChunk \/ DiffFinalize
SpecStream == InitStream /\ [][NextStream]_vars

(***************************************************************************)
(* Block index on its own: the source is handed in chunk by chunk, the     *)
(* index is finalized, and lookup and find_verified_match are called on it *)
(* at any time.  `found` is what the last call returned.  The sources are   *)
(* the short ones in every chunking, and the sources made of two blocks    *)
(* that have the same rolling-hash digest and different content.           *)
(***************************************************************************)
CollidingBlocks == {<<0, 255, 255, 0>>, <<255, 0, 0, 255>>}

InitIndex ==
    /\ \E block_size \in 1..MaxBlock : index = BlockIndex_with_block_size(block_size)
    /\ diff = NoValue
    /\ source_fed = <<>> /\ target_fed = <<>> /\ instructions = <<>>
    /\ phase = "source"
    /\ found = [op |-> "with_block_size"]
    /\ RollIdle /\ HashIdle /\ EagerIdle /\ ApplierIdle /\ WireIdle
    /\ BuilderIdle /\ BufferIdle

AddChunk ==
    /\ phase = "source"
    /\ \E chunk \in BytesUpTo(MaxChunk) \cup CollidingBlocks :
        /\ \/ /\ Len(chunk) <= MaxChunk
              /\ Len(source_fed) + Len(chunk) <= MaxStreamLen
           \/ /\ chunk \in CollidingBlocks
              /\ index.block_size = Len(chunk)
              /\ source_fed \in {<<>>} \cup CollidingBlocks
        /\ index' = add_chunk(index, chunk)
        /\ source_fed' = source_fed \o chunk
    /\ found' = [op |-> "add_chunk"]
    /\ UNCHANGED <<diff, target_fed, instructions, phase>>
    /\ UNCHANGED <<rollVars, hashVars, eagerVars, applierVars, wireVars, builderVars, bufferVars>>

Finalize ==
    /\ phase = "source"
    /\ index' = BlockIndex_finalize(index)
    /\ phase' = "target"
    /\ found' = [op |-> "finalize", val |-> index.bytes_indexed]
    /\ UNCHANGED <<diff, source_fed, target_fed, instructions>>
    /\ UNCHANGED <<rollVars, hashVars, eagerVars, applierVars, wireVars, builderVars, bufferVars>>

\* the weak hashes asked for: those in the index and those of the blocks of
\* one repeated byte, which are in the index or absent from it
WeakHashes ==
    DOMAIN index.index
        \cup {WeakHash(index.block_size, [i \in 1..index.block_size |-> b]) : b \in Byte}

Lookup ==
    /\ \E weak_hash \in WeakHashes :
        found' = [op |-> "lookup", weak_hash |-> weak_hash,
                  val |-> lookup(index, weak_hash)]
    /\ UNCHANGED <<streamVars, rollVars, hashVars, eagerVars, applierVars, wireVars,
                   builderVars, bufferVars>>

\* the caller hands in a target block and its rolling hash
FindVerifiedMatch ==
    /\ \E target_block \in BytesOfLen(index.block_size) :
        LET weak_hash == WeakHash(index.block_size, target_block)
        IN  found' = [op |-> "find_verified_match", weak_hash |-> weak_hash,
                      target_block |-> target_block,
                      val |-> find_verified_match(index, weak_hash, target_block)]
    /\ UNCHANGED <<streamVars, rollVars, hashVars, eagerVars, applierVars, wireVars,
                   builderVars, bufferVars>>

NextIndex == AddChunk \/ Finalize \/ Lookup \/ FindVerifiedMatch
SpecIndex == InitIndex /\ [][NextIndex]_vars

(***************************************************************************)
(* Streaming path on blocks that share a weak hash: the source and the     *)
(* target are made of whole blocks of four bytes, two of which have the    *)
(* same rolling-hash digest and different content.                         *)
(***************************************************************************)
TieBlocks == CollidingBlocks \cup {<<0, 0, 0, 0>>}

InitTie ==
    /\ \E block \in CollidingBlocks : index = BlockIndex_with_block_size(Len(block))
    /\ diff = NoValue
    /\ source_fed = <<>> /\ target_fed = <<>> /\ instructions = <<>>
    /\ phase = "source"
    /\ RollIdle /\ HashIdle /\ EagerIdle /\ ApplierIdle /\ WireIdle /\ QueryIdle
    /\ BuilderIdle /\ BufferIdle

TieAddChunk ==
    /\ phase = "source"
    /\ \E chunk \in TieBlocks :
        /\ Len(source_fed) + Len(chunk) <= MaxTieBlocks * index.block_size
        /\ index' = add_chunk(index, chunk)
        /\ source_fed' = source_fed \o chunk
    /\ UNCHANGED <<diff, target_fed, instructions, phase>>
    /\ UNCHANGED <<rollVars, hashVars, eagerVars, applierVars, wireVars, queryVars, builderVars, bufferVars>>

TieProcessTargetChunk ==
    /\ phase = "target"
    /\ \E chunk \in TieBlocks :
        /\ Len(target_fed) + Len(chunk) <= MaxTieBlocks * index.block_size
        /\ diff' = process_target_chunk(diff, chunk)
        /\ target_fed' = target_fed \o chunk
    /\ UNCHANGED <<index, source_fed, instructions, phase>>
    /\ UNCHANGED <<rollVars, hashVars, eagerVars, applierVars, wireVars, queryVars, builderVars, bufferVars>>

NextTie == TieAddChunk \/ IndexFinalize \/ TieProcessTargetChunk \/ DiffFinalize
SpecTie == InitTie /\ [][NextTie]_vars

(***************************************************************************)
(* Patch builder: the operations of PatchBuilder called in any order.  A   *)
(* panic ends the use of the builder.                                      *)
(***************************************************************************)
\* the chunks given to add_source_chunk and add_target_chunk
BuilderChunks == {<<0>>, <<255, 0>>}
\* the values given as max_size: none, less than a header or than an
\* instruction, a header, more
FlushSizes == {0, 5, 33, 46}
\* the values given to set_target_size
TargetSizes == {0, 2}

InitBuilder ==
    /\ builder = PatchBuilder_new
    /\ bret = [op |-> "new", kind |-> "Ok"]
    /\ bhist = NoHistory
    /\ RollIdle /\ HashIdle /\ EagerIdle /\ StreamIdle /\ ApplierIdle /\ WireIdle
    /\ QueryIdle /\ BufferIdle

BuilderFrame ==
    UNCHANGED <<rollVars, hashVars, eagerVars, streamVars, applierVars, wireVars,
                queryVars, bufferVars>>

\* the bytes the call appended to the output buffer
Appended(pb, after) ==
    Slice(after.output_buffer, Len(pb.output_buffer), Len(after.output_buffer))

PbAddSourceChunk ==
    /\ bret.kind # "Panic"
    /\ \E chunk \in BuilderChunks :
        /\ builder.source_size + Len(chunk) <= MaxBuilderLen
        /\ builder' = add_source_chunk(builder, chunk)
        /\ bret' = [op |-> "add_source_chunk", kind |-> "Ok", chunk |-> chunk]
        /\ bhist' = IF builder.source_finalized THEN bhist
                     ELSE [bhist EXCEPT !.source = @ \o chunk]
    /\ BuilderFrame

PbFinalizeSource ==
    /\ bret.kind # "Panic"
    /\ builder' = finalize_source(builder)
    /\ bret' = [op |-> "finalize_source", kind |-> "Ok"]
    /\ UNCHANGED bhist
    /\ BuilderFrame

PbSetTargetSize ==
    /\ bret.kind # "Panic"
    /\ \E size \in TargetSizes :
        /\ builder' = set_target_size(builder, size)
        /\ bret' = [op |-> "set_target_size", kind |-> "Ok"]
    /\ UNCHANGED bhist
    /\ BuilderFrame

PbAddTargetChunk ==
    /\ bret.kind # "Panic"
    /\ \E chunk \in BuilderChunks :
        /\ builder.target_size + Len(chunk) <= MaxBuilderLen
        /\ builder' = add_target_chunk(builder, chunk)
        /\ bret' = [op |-> "add_target_chunk", kind |-> "Ok", chunk |-> chunk]
        /\ bhist' = [bhist EXCEPT !.target = @ \o chunk,
                                  !.pulled = @ \o Appended(builder, builder')]
    /\ BuilderFrame

PbFinalizeTarget ==
    /\ bret.kind # "Panic"
    /\ builder' = finalize_target(builder)
    /\ bret' = [op |-> "finalize_target", kind |-> "Ok"]
    /\ bhist' = [bhist EXCEPT !.pulled = @ \o Appended(builder, builder')]
    /\ BuilderFrame

PbFlushOutput ==
    /\ bret.kind # "Panic"
    /\ \E max_size \in FlushSizes, overflow_checks \in BOOLEAN :
        LET r == flush_output(builder, max_size, overflow_checks)
        IN  /\ builder' = r.pb
            /\ bret' = [op |-> "flush_output", kind |-> r.kind,
                        max_size |-> max_size, val |-> r.val]
            /\ bhist' = [bhist EXCEPT !.flushed = @ \o r.val]
    /\ BuilderFrame

\* every field that the calls change has left its initial value
BuilderUsed(pb) ==
    /\ pb.source_size > 0 /\ pb.target_size > 0 /\ pb.target_total_size > 0
    /\ pb.source_hasher # HashBuilder_new /\ pb.target_hasher # HashBuilder_new
    /\ pb.diff.kind = "Some" /\ pb.source_finalized
    /\ pb.header_written /\ pb.target_finalized /\ pb.output_buffer # <<>>

PbAreFilesIdentical ==
    /\ bret.kind # "Panic"
    /\ bret' = [op |-> "are_files_identical", kind |-> "Ok",
                val |-> are_files_identical(builder)]
    /\ UNCHANGED <<builder, bhist>>
    /\ BuilderFrame

PbReset ==
    /\ bret.kind # "Panic"
    /\ builder' = PatchBuilder_reset(builder)
    /\ bret' = [op |-> "reset", kind |-> "Ok", used |-> BuilderUsed(builder)]
    /\ bhist' = NoHistory
    /\ BuilderFrame

NextBuilder ==
    \/ PbAddSourceChunk \/ PbFinalizeSource \/ PbSetTargetSize \/ PbAddTargetChunk
    \/ PbFinalizeTarget \/ PbFlushOutput \/ PbAreFilesIdentical \/ PbReset
SpecBuilder == InitBuilder /\ [][NextBuilder]_vars

(***************************************************************************)
(* Draining the builder: the source and the target are fed and finalized,  *)
(* flush_output is called with room for a header at any time, and after    *)
(* finalize_target nothing but flush_output is called.                     *)
(***************************************************************************)
\* the values given as max_size: a header, more
DrainSizes == {33, 46}

FlAddSourceChunk == ~builder.target_finalized /\ PbAddSourceChunk
FlFinalizeSource == ~builder.target_finalized /\ PbFinalizeSource
FlAddTargetChunk == ~builder.target_finalized /\ PbAddTargetChunk
FlFinalizeTarget == ~builder.target_finalized /\ PbFinalizeTarget

FlFlushOutput ==
    /\ \E max_size \in DrainSizes, overflow_checks \in BOOLEAN :
        LET r == flush_output(builder, max_size, overflow_checks)
        IN  /\ builder' = r.pb
            /\ bret' = [op |-> "flush_output", kind |-> r.kind,
                        max_size |-> max_size, val |-> r.val]
            /\ bhist' = [bhist EXCEPT !.flushed = @ \o r.val]
    /\ BuilderFrame

NextFlush ==
    \/ FlAddSourceChunk \/ FlFinalizeSource \/ FlAddTargetChunk
    \/ FlFinalizeTarget \/ FlFlushOutput
\* the caller goes on calling flush_output
SpecFlush == InitBuilder /\ [][NextFlush]_vars /\ WF_vars(FlFlushOutput)

(***************************************************************************)
(* Streaming applier: source chunks and a serialized patch are handed in,  *)
(* prepare parses the patch, next_output_chunk drains the target.          *)
(***************************************************************************)
\* the chunks given to add_source_chunk
SourceChunks == {<<>>, <<0>>, <<255, 0>>}
\* the values given as max_size
OutSizes == {0, 1, 3}

\* The patches handed in are serialized from patches made for one of two
\* source files, with up to MaxPatchInstr instructions and a target_size
\* that is the length they produce or one more.
HeaderSources == {<<0>>, <<255, 0>>}
PatchInstr ==
    {CopyInstr(0, 1), CopyInstr(1, 2), InsertInstr(<<0>>), InsertInstr(<<255, 0>>)}
InstrLists == UNION {[1..n -> PatchInstr] : n \in 0..MaxPatchInstr}
\* the number of target bytes an instruction, an instruction list produces
InstrLen(instruction) ==
    IF instruction.type = "Copy" THEN instruction.length ELSE Len(instruction.data)
RECURSIVE TotalLen(_)
TotalLen(is) == IF is = <<>> THEN 0 ELSE InstrLen(Head(is)) + TotalLen(Tail(is))
PatchInputs ==
    {serialize([Patch_new(4, Len(h), calculate_hash(h), TotalLen(is) + extra)
                    EXCEPT !.instructions = is]) :
        h \in HeaderSources, is \in InstrLists, extra \in {0, 1}}

InitApplier ==
    /\ applier = PatchApplier_new /\ emitted = <<>>
    /\ ret = [op |-> "new", kind |-> "Ok"]
    /\ RollIdle /\ HashIdle /\ EagerIdle /\ StreamIdle /\ WireIdle /\ QueryIdle
    /\ BuilderIdle /\ BufferIdle

ApAddSourceChunk ==
    /\ Len(applier.source_buffer.chunks) < MaxSrcChunks
    /\ \E chunk \in SourceChunks :
        applier' = PatchApplier_add_source_chunk(applier, chunk)
    /\ ret' = [op |-> "add_source_chunk", kind |-> "Ok"]
    /\ UNCHANGED emitted
    /\ UNCHANGED <<rollVars, hashVars, eagerVars, streamVars, wireVars, queryVars, builderVars, bufferVars>>

\* the patch is handed in before the applier is prepared
ApSetPatch ==
    /\ ~applier.prepared
    /\ \E patch_data \in PatchInputs : applier' = set_patch(applier, patch_data)
    /\ ret' = [op |-> "set_patch", kind |-> "Ok"]
    /\ UNCHANGED emitted
    /\ UNCHANGED <<rollVars, hashVars, eagerVars, streamVars, wireVars, queryVars, builderVars, bufferVars>>

ApValidateSource ==
    /\ ret' = [op |-> "validate_source",
               kind |-> PatchApplier_validate_source(applier).kind]
    /\ UNCHANGED <<applier, emitted>>
    /\ UNCHANGED <<rollVars, hashVars, eagerVars, streamVars, wireVars, queryVars, builderVars, bufferVars>>

ApPrepare ==
    /\ applier' = prepare(applier)
    /\ ret' = [op |-> "prepare", kind |-> prepare_result(applier).kind]
    /\ emitted' = IF prepare_result(applier).kind = "Ok" THEN <<>> ELSE emitted
    /\ UNCHANGED <<rollVars, hashVars, eagerVars, streamVars, wireVars, queryVars, builderVars, bufferVars>>

\* next_output_chunk returns a Vec<u8>: it has no error to return
ApNextOutputChunk ==
    /\ \E max_size \in OutSizes :
        LET r == next_output_chunk(applier, max_size)
        IN  /\ applier' = r.ap
            /\ ret' = [op |-> "next_output_chunk",
                       kind |-> IF r.panic THEN "Panic" ELSE "Ok",
                       val |-> r.result, skipped |-> r.skipped, oob |-> r.oob]
            /\ emitted' = emitted \o r.result
    /\ UNCHANGED <<rollVars, hashVars, eagerVars, streamVars, wireVars, queryVars, builderVars, bufferVars>>

NextApplier ==
    \/ ApAddSourceChunk
    \/ ApSetPatch
    \/ ApValidateSource
    \/ ApPrepare
    \/ ApNextOutputChunk
SpecApplier == InitApplier /\ [][NextApplier]_vars

(***************************************************************************)
(* Streaming applier, life cycle: the patch is handed in whole (set_patch) *)
(* or in pieces (add_patch_chunk, finalize_patch), complete or not; every  *)
(* operation may be called at any time; reset starts over.                 *)
(***************************************************************************)
\* the patch for source [00]: COPY of the source byte, INSERT of two bytes
LcPatch ==
    serialize(add_insert(add_copy(
        Patch_new(1, 1, calculate_hash(<<0>>), 3), 0, 1), <<255, 0>>))
\* the pieces handed to add_patch_chunk: part of the header, the rest of
\* the header, the instructions
LcPieces ==
    {Slice(LcPatch, 0, 20), Slice(LcPatch, 20, 33), Slice(LcPatch, 33, Len(LcPatch))}
\* the patch data handed to set_patch: the patch, and less than a header
LcPatches == {LcPatch, Slice(LcPatch, 0, 20)}
\* the source chunks: the source of the patch, and another
LcSourceChunks == {<<0>>, <<255>>}

InitLifecycle ==
    /\ applier = PatchApplier_new /\ emitted = <<>>
    /\ ret = [op |-> "new", kind |-> "Ok"]
    /\ RollIdle /\ HashIdle /\ EagerIdle /\ StreamIdle /\ WireIdle /\ QueryIdle
    /\ BuilderIdle /\ BufferIdle

ApplierFrame ==
    UNCHANGED <<rollVars, hashVars, eagerVars, streamVars, wireVars, queryVars,
                builderVars, bufferVars>>

LcAddSourceChunk ==
    /\ Len(applier.source_buffer.chunks) < MaxLcChunks
    /\ \E chunk \in LcSourceChunks :
        applier' = PatchApplier_add_source_chunk(applier, chunk)
    /\ ret' = [op |-> "add_source_chunk", kind |-> "Ok"]
    /\ UNCHANGED emitted
    /\ ApplierFrame

LcSetPatch ==
    /\ \E patch_data \in LcPatches : applier' = set_patch(applier, patch_data)
    /\ ret' = [op |-> "set_patch", kind |-> "Ok"]
    /\ UNCHANGED emitted
    /\ ApplierFrame

LcAddPatchChunk ==
    /\ \E chunk \in LcPieces :
        /\ Len(applier.patch_data) + Len(chunk) <= Len(LcPatch)
        /\ applier' = add_patch_chunk(applier, chunk)
    /\ ret' = [op |-> "add_patch_chunk", kind |-> "Ok"]
    /\ UNCHANGED emitted
    /\ ApplierFrame

LcFinalizePatch ==
    /\ applier' = finalize_patch(applier)
    /\ ret' = [op |-> "finalize_patch", kind |-> finalize_patch_result(applier).kind]
    /\ UNCHANGED emitted
    /\ ApplierFrame

LcExpectedSourceSize ==
    /\ ret' = [op |-> "expected_source_size"] @@ expected_source_size(applier)
    /\ UNCHANGED <<applier, emitted>>
    /\ ApplierFrame

LcExpectedTargetSize ==
    /\ ret' = [op |-> "expected_target_size"] @@ expected_target_size(applier)
    /\ UNCHANGED <<applier, emitted>>
    /\ ApplierFrame

\* every field that the calls change has left its initial value
ApplierUsed(ap) ==
    /\ ap.source_buffer # ChunkBuffer_new /\ ap.source_hasher # HashBuilder_new
    /\ ap.patch_data # <<>> /\ ap.patch_loaded /\ ap.instructions # <<>>
    /\ ap.current_instruction > 0 /\ ap.instruction_offset > 0
    /\ ap.output_written > 0 /\ ap.target_size > 0 /\ ap.prepared

LcReset ==
    /\ applier' = PatchApplier_reset(applier)
    /\ ret' = [op |-> "reset", kind |-> "Ok", used |-> ApplierUsed(applier)]
    /\ emitted' = <<>>
    /\ ApplierFrame

NextLifecycle ==
    \/ LcAddSourceChunk \/ LcSetPatch \/ LcAddPatchChunk \/ LcFinalizePatch
    \/ ApValidateSource \/ LcExpectedSourceSize \/ LcExpectedTargetSize
    \/ ApPrepare \/ ApNextOutputChunk \/ LcReset
SpecLifecycle == InitLifecycle /\ [][NextLifecycle]_vars

(***************************************************************************)
(* Streaming applier against apply_patch: the source is fed in chunks, a   *)
(* serialized patch made for a source is set, the applier is prepared and  *)
(* drained with max_size >= 1.                                             *)
(***************************************************************************)
RefineChunks == {<<>>, <<0>>, <<255>>}
RefineSizes == {1, 3}
RefineInstr ==
    {CopyInstr(0, 0), CopyInstr(0, 1), CopyInstr(0, 2), InsertInstr(<<255, 0>>)}
RefineLists == UNION {[1..n -> RefineInstr] : n \in 0..MaxRefineInstr}
RefinePatches ==
    {serialize([Patch_new(4, Len(h), calculate_hash(h), TotalLen(is))
                    EXCEPT !.instructions = is]) :
        h \in HeaderSources, is \in RefineLists}

InitRefine ==
    /\ applier = PatchApplier_new /\ emitted = <<>>
    /\ ret = [op |-> "new", kind |-> "Ok"]
    /\ RollIdle /\ HashIdle /\ EagerIdle /\ StreamIdle /\ WireIdle /\ QueryIdle
    /\ BuilderIdle /\ BufferIdle

\* the source is fed before the applier is prepared
RfAddSourceChunk ==
    /\ ~applier.prepared
    /\ Len(applier.source_buffer.chunks) < MaxRefineChunks
    /\ \E chunk \in RefineChunks :
        applier' = PatchApplier_add_source_chunk(applier, chunk)
    /\ ret' = [op |-> "add_source_chunk", kind |-> "Ok"]
    /\ UNCHANGED emitted
    /\ ApplierFrame

\* one patch is set, before the applier is prepared
RfSetPatch ==
    /\ ~applier.prepared /\ ~applier.patch_loaded
    /\ \E patch_data \in RefinePatches : applier' = set_patch(applier, patch_data)
    /\ ret' = [op |-> "set_patch", kind |-> "Ok"]
    /\ UNCHANGED emitted
    /\ ApplierFrame

\* prepare, once
RfPrepare ==
    /\ ~applier.prepared
    /\ ApPrepare

RfNextOutputChunk ==
    /\ \E max_size \in RefineSizes :
        LET r == next_output_chunk(applier, max_size)
        IN  /\ applier' = r.ap
            /\ ret' = [op |-> "next_output_chunk",
                       kind |-> IF r.panic THEN "Panic" ELSE "Ok",
                       val |-> r.result, max_size |-> max_size]
            /\ emitted' = emitted \o r.result
    /\ ApplierFrame

NextRefine == RfAddSourceChunk \/ RfSetPatch \/ RfPrepare \/ RfNextOutputChunk
SpecRefine == InitRefine /\ [][NextRefine]_vars
\* the caller of a prepared applier goes on calling next_output_chunk
SpecDrain == SpecRefine /\ WF_vars(RfNextOutputChunk)

(***************************************************************************)
(* Chunk buffer: chunks are pushed, read_at reads a range.                 *)
(***************************************************************************)
BufChunks == {<<>>, <<0>>, <<255, 0>>}
\* offsets handed to read_at: small ones, and usize::MAX
BufOffsets == 0..MaxBufRead \cup {UsizeMax}
BufLengths == 0..MaxBufRead

InitBuffer ==
    /\ buffer = ChunkBuffer_new /\ bufret = [op |-> "new", kind |-> "Ok"]
    /\ RollIdle /\ HashIdle /\ EagerIdle /\ StreamIdle /\ ApplierIdle /\ WireIdle
    /\ QueryIdle /\ BuilderIdle

BufferFrame ==
    UNCHANGED <<rollVars, hashVars, eagerVars, streamVars, applierVars, wireVars,
                queryVars, builderVars>>

BufPush ==
    /\ Len(buffer.chunks) < MaxBufChunks
    /\ \E data \in BufChunks : buffer' = push(buffer, data)
    /\ bufret' = [op |-> "push", kind |-> "Ok"]
    /\ BufferFrame

BufPushSlice ==
    /\ Len(buffer.chunks) < MaxBufChunks
    /\ \E data \in BufChunks : buffer' = push_slice(buffer, data)
    /\ bufret' = [op |-> "push_slice", kind |-> "Ok"]
    /\ BufferFrame

\* read_at(offset, length); `offset + length` panics in a build with
\* overflow checks when it overflows
BufReadAt ==
    /\ \E offset \in BufOffsets, length \in BufLengths, overflow_checks \in BOOLEAN :
        bufret' = [op |-> "read_at", offset |-> offset, length |-> length,
                   kind |-> IF overflow_checks /\ AddOverflows(offset, length)
                            THEN "Panic" ELSE "Ok",
                   val |-> IF overflow_checks /\ AddOverflows(offset, length)
                           THEN None ELSE read_at(buffer, offset, length)]
    /\ UNCHANGED buffer
    /\ BufferFrame

NextBuffer == BufPush \/ BufPushSlice \/ BufReadAt
SpecBuffer == InitBuffer /\ [][NextBuffer]_vars

(***************************************************************************)
(* COPY bounds: a patch made for a source gets COPY instructions whose     *)
(* offset goes up to the largest value of usize; apply_patch applies it to *)
(* the source, and a ChunkBuffer holding the source is read at the range   *)
(* of one of its COPYs, as next_output_chunk does.                         *)
(***************************************************************************)
\* the offsets given to add_copy: inside and at the end of the source, and
\* the two largest values of usize
FarOffsets == (0..MaxApplyLen) \cup {UsizeMax - 1, UsizeMax}
FarLengths == 0..(MaxApplyLen + 1)
FarFrame ==
    UNCHANGED <<rollVars, hashVars, streamVars, applierVars, wireVars, queryVars,
                builderVars>>

InitBounds ==
    /\ source \in BytesUpTo(MaxApplyLen)
    /\ target = <<>>
    /\ chunk_size = 4
    /\ \E target_size \in 0..(MaxApplyLen + 1) :
        patch = Patch_new(chunk_size, Len(source), calculate_hash(source), target_size)
    /\ applied = <<>> /\ result = NoValue /\ pc = "patch"
    /\ buffer = ChunkBuffer_new /\ bufret = [op |-> "new", kind |-> "Ok"]
    /\ RollIdle /\ HashIdle /\ StreamIdle /\ ApplierIdle /\ WireIdle /\ QueryIdle
    /\ BuilderIdle

FarAddCopy ==
    /\ pc = "patch"
    /\ Len(patch.instructions) < MaxInstr
    /\ \E offset \in FarOffsets, length \in FarLengths :
        patch' = add_copy(patch, offset, length)
    /\ UNCHANGED <<source, target, chunk_size, applied, result, pc>>
    /\ UNCHANGED bufferVars
    /\ FarFrame

\* apply_patch on the source the header was made for
FarApplyPatch ==
    /\ pc = "patch"
    /\ \E overflow_checks \in BOOLEAN :
        result' = apply_patch_build(source, patch, overflow_checks)
    /\ applied' = source
    /\ pc' = "applied"
    /\ UNCHANGED <<source, target, chunk_size, patch>>
    /\ UNCHANGED bufferVars
    /\ FarFrame

\* the source goes into the buffer, in one chunk
FarPushSlice ==
    /\ buffer = ChunkBuffer_new
    /\ buffer' = push_slice(buffer, source)
    /\ bufret' = [op |-> "push_slice", kind |-> "Ok"]
    /\ UNCHANGED eagerVars
    /\ FarFrame

\* read_at on the range of a COPY of the patch
FarReadAt ==
    /\ buffer # ChunkBuffer_new
    /\ \E i \in 1..Len(patch.instructions), overflow_checks \in BOOLEAN :
        LET offset == patch.instructions[i].offset
            length == patch.instructions[i].length
        IN  bufret' = [op |-> "read_at", offset |-> offset, length |-> length,
                       kind |-> IF overflow_checks /\ AddOverflows(offset, length)
                                THEN "Panic" ELSE "Ok",
                       val |-> IF overflow_checks /\ AddOverflows(offset, length)
                               THEN None ELSE read_at(buffer, offset, length)]
    /\ UNCHANGED buffer
    /\ UNCHANGED eagerVars
    /\ FarFrame

NextBounds == FarAddCopy \/ FarApplyPatch \/ FarPushSlice \/ FarReadAt
SpecBounds == InitBounds /\ [][NextBounds]_vars

(***************************************************************************)
(* Container: a Patch is serialized; the bytes, as they are, cut short or  *)
(* with one byte replaced, are given to Patch::deserialize and to          *)
(* PatchMetadata::parse.                                                   *)
(***************************************************************************)
\* header values of one and of several significant bytes
WireHeaders ==
    {Patch_new(1, 0, FNV_OFFSET, 0),
     Patch_new(4096, 258, calculate_hash(<<0>>), 65539)}
\* instructions: INSERT data holding the bytes of the two type tags
WireInstr ==
    {CopyInstr(0, 1), CopyInstr(258, 4096),
     InsertInstr(<<0>>), InsertInstr(<<1, 2>>)}
WirePatches ==
    {[h EXCEPT !.instructions = is] :
        h \in WireHeaders,
        is \in UNION {[1..n -> WireInstr] : n \in 0..MaxWireInstr}}
\* the values a byte is replaced by
CorruptBytes == {0, 1, 2, 3, 255}

InitWire ==
    /\ wire_patch \in WirePatches
    /\ wire = <<>> /\ wstep = "patch"
    /\ decoded = NoValue /\ parsed = NoValue
    /\ RollIdle /\ HashIdle /\ EagerIdle /\ StreamIdle /\ ApplierIdle /\ QueryIdle
    /\ BuilderIdle /\ BufferIdle

Serialize ==
    /\ wstep = "patch"
    /\ wire' = serialize(wire_patch)
    /\ wstep' = "wire"
    /\ UNCHANGED <<wire_patch, decoded, parsed>>
    /\ UNCHANGED <<rollVars, hashVars, eagerVars, streamVars, applierVars,
                   queryVars, builderVars, bufferVars>>

\* the bytes arrive cut short
Truncate ==
    /\ wstep = "wire" /\ decoded = NoValue /\ parsed = NoValue
    /\ \E n \in 0..(Len(wire) - 1) : wire' = Slice(wire, 0, n)
    /\ wstep' = "truncated"
    /\ UNCHANGED <<wire_patch, decoded, parsed>>
    /\ UNCHANGED <<rollVars, hashVars, eagerVars, streamVars, applierVars,
                   queryVars, builderVars, bufferVars>>

\* the bytes arrive with one byte replaced
Corrupt ==
    /\ wstep = "wire" /\ decoded = NoValue /\ parsed = NoValue
    /\ \E i \in 1..Len(wire) : \E b \in CorruptBytes \ {wire[i]} :
        wire' = [wire EXCEPT ![i] = b]
    /\ wstep' = "corrupted"
    /\ UNCHANGED <<wire_patch, decoded, parsed>>
    /\ UNCHANGED <<rollVars, hashVars, eagerVars, streamVars, applierVars,
                   queryVars, builderVars, bufferVars>>

Deserialize ==
    /\ wstep \in {"wire", "truncated", "corrupted"}
    /\ decoded' = deserialize(wire)
    /\ UNCHANGED <<wire_patch, wire, wstep, parsed>>
    /\ UNCHANGED <<rollVars, hashVars, eagerVars, streamVars, applierVars,
                   queryVars, builderVars, bufferVars>>

Parse ==
    /\ wstep \in {"wire", "truncated", "corrupted"}
    /\ parsed' = parse(wire)
    /\ UNCHANGED <<wire_patch, wire, wstep, decoded>>
    /\ UNCHANGED <<rollVars, hashVars, eagerVars, streamVars, applierVars,
                   queryVars, builderVars, bufferVars>>

NextWire ==
    \/ Serialize
    \/ Truncate
    \/ Corrupt
    \/ Deserialize
    \/ Parse
SpecWire == InitWire /\ [][NextWire]_vars

(***************************************************************************)
(* Helpers of the statements about instruction lists.                      *)
(***************************************************************************)
\* what an instruction list produces from S: COPY reads S[offset..offset+length),
\* INSERT emits its data
RECURSIVE ExecInstructions(_, _)
ExecInstructions(S, is) ==
    IF is = <<>> THEN <<>>
    ELSE (IF Head(is).type = "Copy"
          THEN Slice(S, Head(is).offset, Head(is).offset + Head(is).length)
          ELSE Head(is).data) \o ExecInstructions(S, Tail(is))

\* the target window that instruction i of `is` stands for
TargetWindow(is, i) ==
    Slice(target_fed, TotalLen(SubSeq(is, 1, i - 1)), TotalLen(SubSeq(is, 1, i)))

\* the source block a COPY refers to
SourceBlock(instruction) ==
    Slice(source_fed, instruction.offset, instruction.offset + instruction.length)

(***************************************************************************)
(* C2.  Chunk-splitting invariance, streaming path: for every chunking of  *)
(* S into add_chunk and of T into process_target_chunk, the instructions   *)
(* returned by finalize, applied to S, reproduce T.                        *)
(***************************************************************************)
C2_ChunkSplitInvariance ==
    phase = "done" => ExecInstructions(source_fed, instructions) = target_fed

(***************************************************************************)
(* C3.  Match verification in the streaming emitter: every COPY emitted    *)
(* stands for a target window that was verified against the source block   *)
(* at its offset, by bytes or by strong hash; a weak-hash hit on a window  *)
(* of other content produces no COPY.                                      *)
(***************************************************************************)
C3_CopyVerified ==
    phase = "target" =>
        \A i \in 1..Len(diff.instructions) :
            diff.instructions[i].type = "Copy" =>
                \/ TargetWindow(diff.instructions, i) = SourceBlock(diff.instructions[i])
                \/ calculate_hash(TargetWindow(diff.instructions, i))
                        = calculate_hash(SourceBlock(diff.instructions[i]))

C5_ChunkIndependence ==
    /\ HashBuilder_finalize(hb) = calculate_hash(hb_fed)
    /\ hb_fed = <<>> =>
        HashBuilder_finalize(hb) = <<37, 35, 34, 132, 228, 156, 242, 203>>

\* more bytes than one update can carry: at least two non-empty updates
C5_Witness == Len(hb_fed) > MaxChunk

(***************************************************************************)
(* Helpers of the statements about apply_patch.                            *)
(***************************************************************************)
\* the source handed to apply_patch passes the validation of the header
SourceValid ==
    /\ Len(applied) = patch.source_size
    /\ calculate_hash(applied) = patch.source_hash

\* instruction i (1-based) is a COPY reaching past the end of `applied`
CopyOutOfBounds(i) ==
    /\ patch.instructions[i].type = "Copy"
    /\ patch.instructions[i].offset + patch.instructions[i].length > Len(applied)

(***************************************************************************)
(* C1.  Round trip, eager path: applying the patch generated for (S, T, B) *)
(* to S returns Ok(T), for every S, T (empty or shorter than B included)   *)
(* and every B >= 1.                                                       *)
(***************************************************************************)
C1_RoundTrip ==
    (pc = "applied" /\ applied = source) =>
        (result.kind = "Ok" /\ result.output = target)

\* a round trip through a patch that mixes COPY and INSERT
C1_Witness ==
    /\ pc = "applied" /\ applied = source
    /\ chunk_size >= 2
    /\ \E i, j \in 1..Len(patch.instructions) :
        patch.instructions[i].type = "Copy" /\ patch.instructions[j].type = "Insert"

(***************************************************************************)
(* C6.  Source validation on eager apply: a source of another size is      *)
(* refused with ValidationFailed(SizeMismatch{expected, actual}), a source *)
(* of the right size and another hash with ValidationFailed(HashMismatch); *)
(* no instruction is executed, no source byte read, no bytes returned.     *)
(***************************************************************************)
C6_SourceValidation ==
    pc = "applied" =>
        /\ Len(applied) # patch.source_size =>
            /\ result.kind = "Err"
            /\ result.err = [kind |-> "ValidationFailed",
                             error |-> [kind |-> "SizeMismatch",
                                        expected |-> patch.source_size,
                                        actual |-> Len(applied)]]
            /\ result.executed = 0 /\ result.reads = {}
        /\ (Len(applied) = patch.source_size
                /\ calculate_hash(applied) # patch.source_hash) =>
            /\ result.kind = "Err"
            /\ result.err.kind = "ValidationFailed"
            /\ result.err.error.kind = "HashMismatch"
            /\ result.executed = 0 /\ result.reads = {}

\* a source of the right size and other content, against a patch with
\* instructions
C6_Witness ==
    /\ pc = "applied"
    /\ Len(applied) = patch.source_size
    /\ calculate_hash(applied) # patch.source_hash
    /\ patch.instructions # <<>>

(***************************************************************************)
(* C8.  Bounds safety on eager apply: when the source passes validation    *)
(* and some COPY has offset + length > |S|, apply_patch returns            *)
(* CopyOutOfBounds for the first such COPY, with its index, offset, length *)
(* and |S|; it reads no source byte at an index >= |S| and returns no      *)
(* bytes.                                                                  *)
(***************************************************************************)
C8_BoundsSafety ==
    (pc = "applied" /\ SourceValid
        /\ \E i \in 1..Len(patch.instructions) : CopyOutOfBounds(i)) =>
        LET first == CHOOSE i \in 1..Len(patch.instructions) :
                        /\ CopyOutOfBounds(i)
                        /\ \A j \in 1..(i - 1) : ~CopyOutOfBounds(j)
        IN  /\ result.kind = "Err"
            /\ result.err = [kind |-> "CopyOutOfBounds",
                             instruction_index |-> first - 1,
                             offset |-> patch.instructions[first].offset,
                             length |-> patch.instructions[first].length,
                             source_len |-> Len(applied)]
            /\ \A r \in result.reads : r < Len(applied)

\* an out-of-bounds COPY that follows a COPY which was executed
C8_Witness ==
    /\ pc = "applied" /\ SourceValid
    /\ Len(patch.instructions) = 2
    /\ ~CopyOutOfBounds(1) /\ CopyOutOfBounds(2)
    /\ result.reads # {}

(***************************************************************************)
(* C10.  Target-size check on eager apply: when the source passes          *)
(* validation and every COPY is in bounds, apply_patch returns Ok(out)     *)
(* only with |out| = target_size, and SizeMismatch{expected = target_size, *)
(* actual = total emitted length} otherwise.                               *)
(***************************************************************************)
C10_TargetSizeCheck ==
    (pc = "applied" /\ SourceValid
        /\ \A i \in 1..Len(patch.instructions) : ~CopyOutOfBounds(i)) =>
        IF TotalLen(patch.instructions) = patch.target_size
        THEN result.kind = "Ok" /\ Len(result.output) = patch.target_size
        ELSE /\ result.kind = "Err"
             /\ result.err = [kind |-> "SizeMismatch",
                              expected |-> patch.target_size,
                              actual |-> TotalLen(patch.instructions)]

\* a patch that emits bytes, fewer than its header announces
C10_Witness ==
    /\ pc = "applied" /\ SourceValid
    /\ result.kind = "Err" /\ result.err.kind = "SizeMismatch"
    /\ 0 < result.err.actual /\ result.err.actual < result.err.expected

(***************************************************************************)
(* Statements about the streaming applier.                                 *)
(***************************************************************************)
\* the patch handed to the applier parses and names a source other than
\* the bytes fed through add_source_chunk
SourceMismatch ==
    /\ applier.patch_loaded
    /\ parse(applier.patch_data).ok
    /\ LET header == parse(applier.patch_data).val
       IN  \/ header.source_size # applier.source_buffer.total_size
           \/ header.source_hash # HashBuilder_finalize(applier.source_hasher)

\* C7: when the bytes fed through add_source_chunk differ in size or FNV-1a
\* hash from the patch header, prepare returns an error and the applier
\* left by it does not report has_more_output (so that no target byte can
\* be drawn from it).
C7_PrepareValidatesSource ==
    (ret.op = "prepare" /\ SourceMismatch) =>
        /\ ret.kind = "Err"
        /\ ~has_more_output(applier)

\* C9: a next_output_chunk call that comes to a COPY whose offset + length
\* exceeds the buffered source size surfaces an error to the caller; it
\* does not skip the COPY and go on with the following instructions.
C9_CopyOutOfBoundsSurfaced ==
    (ret.op = "next_output_chunk" /\ ret.oob) =>
        /\ ret.kind = "Err"
        /\ ret.skipped = 0

\* C11: when the applier has drained its last instruction and the number of
\* bytes it returned differs from the target_size of the header, the call
\* that drains it reports a failure to the caller.
C11_TargetSizeSurfaced ==
    (/\ ret.op = "next_output_chunk"
     /\ applier.prepared /\ ~has_more_output(applier)
     /\ ~SourceMismatch /\ ret.skipped = 0
     /\ applier.output_written # applier.target_size) =>
        ret.kind = "Err"

(***************************************************************************)
(* Statements about the patch container.                                   *)
(***************************************************************************)
\* C12: Patch::deserialize of the bytes Patch::serialize wrote succeeds and
\* returns the same chunk_size, source_size, source_hash, target_size and
\* the same instructions in the same order, whatever the header values and
\* the COPY and non-empty INSERT instructions.
C12_ContainerRoundTrip ==
    (wstep = "wire" /\ decoded # NoValue) =>
        (decoded.ok /\ decoded.val = wire_patch)

\* header values of several bytes, an INSERT whose data are the two type
\* tags, followed by a COPY
C12_Witness ==
    /\ wstep = "wire" /\ decoded # NoValue /\ decoded.ok
    /\ wire_patch.source_size = 258
    /\ wire_patch.instructions = <<InsertInstr(<<1, 2>>), CopyInstr(258, 4096)>>

\* the four bytes from position pos (0-based) on, as a little-endian number
\* (MaxValue for every number from MaxValue on)
Le32At(bytes, pos) ==
    IF bytes[pos + 4] >= 64 THEN MaxValue
    ELSE bytes[pos + 1] + 256 * bytes[pos + 2] + 65536 * bytes[pos + 3]
            + 16777216 * bytes[pos + 4]

\* the eight bytes from position pos on are the little-endian form of v
Le64Is(bytes, pos, v) ==
    /\ Le32At(bytes, pos) = v
    /\ \A k \in 5..8 : bytes[pos + k] = 0

\* the instructions `is` are laid out from position pos to the end of bytes
RECURSIVE LaidOutFrom(_, _, _)
LaidOutFrom(bytes, pos, is) ==
    IF is = <<>> THEN pos = Len(bytes)
    ELSE IF Head(is).type = "Copy"
    THEN /\ pos + 13 <= Len(bytes)
         /\ bytes[pos + 1] = 1
         /\ Le64Is(bytes, pos + 1, Head(is).offset)
         /\ Le32At(bytes, pos + 9) = Head(is).length
         /\ LaidOutFrom(bytes, pos + 13, Tail(is))
    ELSE /\ pos + 5 + Len(Head(is).data) <= Len(bytes)
         /\ bytes[pos + 1] = 2
         /\ Le32At(bytes, pos + 1) = Len(Head(is).data)
         /\ Slice(bytes, pos + 5, pos + 5 + Len(Head(is).data)) = Head(is).data
         /\ LaidOutFrom(bytes, pos + 5 + Len(Head(is).data), Tail(is))

\* 13 bytes per COPY, 5 + data length per INSERT
RECURSIVE WireSize(_)
WireSize(is) ==
    IF is = <<>> THEN 0
    ELSE (IF Head(is).type = "Copy" THEN 13 ELSE 5 + Len(Head(is).data))
            + WireSize(Tail(is))

\* C13: the bytes written by Patch::serialize start with the 33-byte header
\* (PTCH, version 1, chunk_size u32, source_size u64, source_hash u64,
\* target_size u64, little-endian), followed by the instructions in order
\* with no terminator: 33 + 13 per COPY + (5 + data length) per INSERT
\* bytes in all, 33 for a patch without instructions.
C13_SerializedLayout ==
    wstep = "wire" =>
        /\ Len(wire) = 33 + WireSize(wire_patch.instructions)
        /\ wire_patch.instructions = <<>> => Len(wire) = 33
        /\ Slice(wire, 0, 4) = <<80, 84, 67, 72>>
        /\ wire[5] = 1
        /\ Le32At(wire, 5) = wire_patch.chunk_size
        /\ Le64Is(wire, 9, wire_patch.source_size)
        /\ Slice(wire, 17, 25) = wire_patch.source_hash
        /\ Le64Is(wire, 25, wire_patch.target_size)
        /\ LaidOutFrom(wire, 33, wire_patch.instructions)

\* a serialized patch with a COPY and an INSERT after header values of
\* several bytes
C13_Witness ==
    /\ wstep = "wire"
    /\ wire_patch.chunk_size = 4096
    /\ wire_patch.instructions = <<CopyInstr(258, 4096), InsertInstr(<<1, 2>>)>>
    /\ Len(wire) = 53

\* the first four bytes are there and are not PTCH
BadMagic == Len(wire) >= 4 /\ Slice(wire, 0, 4) # <<80, 84, 67, 72>>

\* after PTCH the version byte is there and is not 1
BadVersion ==
    Len(wire) >= 5 /\ Slice(wire, 0, 4) = <<80, 84, 67, 72>> /\ wire[5] # 1

\* walking complete instructions from position pos, a byte that is neither
\* 0x01 nor 0x02 stands where an instruction begins
RECURSIVE BadTagFrom(_, _)
BadTagFrom(bytes, pos) ==
    IF pos >= Len(bytes) THEN FALSE
    ELSE IF bytes[pos + 1] = 1
    THEN pos + 13 <= Len(bytes) /\ BadTagFrom(bytes, pos + 13)
    ELSE IF bytes[pos + 1] = 2
    THEN /\ pos + 5 <= Len(bytes)
         /\ Le32At(bytes, pos + 1) <= Len(bytes) - (pos + 5)
         /\ BadTagFrom(bytes, pos + 5 + Le32At(bytes, pos + 1))
    ELSE TRUE

\* the header is complete and well formed and a bad tag follows
BadTag ==
    /\ Len(wire) >= 33 /\ Slice(wire, 0, 4) = <<80, 84, 67, 72>> /\ wire[5] = 1
    /\ BadTagFrom(wire, 33)

\* C14: Patch::deserialize and PatchMetadata::parse return an InvalidData
\* error and no patch for bytes that do not start with PTCH, whose version
\* byte is not 1, or where a byte other than 0x01 and 0x02 stands at an
\* instruction boundary.
C14_FramingRejected ==
    (BadMagic \/ BadVersion \/ BadTag) =>
        /\ decoded # NoValue => (~decoded.ok /\ decoded.err = "InvalidData")
        /\ parsed # NoValue => (~parsed.ok /\ parsed.err = "InvalidData")

\* both parsers were given bytes with a bad tag after a complete first
\* instruction
C14_Witness ==
    /\ decoded # NoValue /\ parsed # NoValue
    /\ BadTag /\ wire[34] \in {1, 2}

\* walking the instructions from position pos, one of them is cut short: a
\* COPY with fewer than 12 field bytes, or an INSERT without its 4 length
\* bytes or declaring more data bytes than remain
RECURSIVE CutShortFrom(_, _)
CutShortFrom(bytes, pos) ==
    IF pos >= Len(bytes) THEN FALSE
    ELSE IF bytes[pos + 1] = 1
    THEN pos + 13 > Len(bytes) \/ CutShortFrom(bytes, pos + 13)
    ELSE IF bytes[pos + 1] = 2
    THEN \/ pos + 5 > Len(bytes)
         \/ Le32At(bytes, pos + 1) > Len(bytes) - (pos + 5)
         \/ CutShortFrom(bytes, pos + 5 + Le32At(bytes, pos + 1))
    ELSE FALSE

\* the header has fewer than 33 bytes or an instruction is cut short
CutShort == Len(wire) < 33 \/ CutShortFrom(wire, 33)

\* C15: Patch::deserialize and PatchMetadata::parse return an error for a
\* patch whose header is shorter than 33 bytes, whose last COPY has fewer
\* than 12 field bytes or whose last INSERT declares more bytes than remain
\* after its length field; parse never records an INSERT whose range
\* [patch_offset, patch_offset + length) lies outside the patch data.
C15_TruncationRejected ==
    /\ (wstep # "patch" /\ CutShort) =>
        /\ decoded # NoValue => ~decoded.ok
        /\ parsed # NoValue => ~parsed.ok
    /\ (parsed # NoValue /\ parsed.ok) =>
        \A i \in 1..Len(parsed.val.instructions) :
            parsed.val.instructions[i].type = "Insert" =>
                parsed.val.instructions[i].patch_offset
                    + parsed.val.instructions[i].length <= Len(wire)

\* the k-th block of the source handed to the index so far
FedBlock(k) == Slice(source_fed, k * index.block_size, (k + 1) * index.block_size)
\* the number of complete blocks in the source handed to the index so far
FedBlocks == Len(source_fed) \div index.block_size
\* the places <<weak hash, position>> of the index whose entry holds `offset`
EntriesAt(offset) ==
    {p \in UNION {{<<w, i>> : i \in 1..Len(index.index[w])} : w \in DOMAIN index.index} :
        index.index[p[1]][p[2]].offset = offset}

\* C16: after the chunks handed to add_chunk, with concatenation s and block
\* size B, the index holds exactly one entry per complete block k of s: its
\* offset is k*B, it is stored under the weak hash of the block and holds the
\* FNV-1a hash of the block; bytes_indexed is B*floor(|s|/B); the bytes kept
\* are the last |s| mod B bytes of s; no entry exists for the partial
\* trailing block, also after finalize.
C16_BlockIndexContent ==
    found # NoValue =>
        /\ \A k \in 0..(FedBlocks - 1) :
            /\ Cardinality(EntriesAt(k * index.block_size)) = 1
            /\ \A p \in EntriesAt(k * index.block_size) :
                /\ p[1] = WeakHash(index.block_size, FedBlock(k))
                /\ index.index[p[1]][p[2]].strong_hash = calculate_hash(FedBlock(k))
        /\ \A w \in DOMAIN index.index :
            /\ index.index[w] # <<>>
            /\ \A i \in 1..Len(index.index[w]) :
                index.index[w][i].offset
                    \in {k * index.block_size : k \in 0..(FedBlocks - 1)}
        /\ index.bytes_indexed = index.block_size * FedBlocks
        /\ phase = "source" =>
                index.pending = Slice(source_fed, index.block_size * FedBlocks,
                                      Len(source_fed))
        /\ phase # "source" => index.pending = <<>>
\* a block was completed by a later chunk, and a partial block is left over,
\* before and after finalize
C16_Witness ==
    /\ found # NoValue /\ found.op = "finalize"
    /\ index.block_size = 3 /\ FedBlocks = 1 /\ Len(source_fed) = 4
    /\ source_fed = <<0, 255, 255, 0>>

\* the positions of the entries under the weak hash asked for whose strong
\* hash is the FNV-1a hash of the target block
StrongMatches ==
    IF found.weak_hash \in DOMAIN index.index
    THEN {i \in 1..Len(index.index[found.weak_hash]) :
            index.index[found.weak_hash][i].strong_hash
                = calculate_hash(found.target_block)}
    ELSE {}

\* C17: find_verified_match(w, block) returns the offset of the first entry,
\* in insertion order, stored under w whose strong hash is the FNV-1a hash of
\* block, and None when w is absent or no entry under w has that hash.
C17_FindVerifiedMatch ==
    (found # NoValue /\ found.op = "find_verified_match") =>
        IF StrongMatches = {}
        THEN found.val = None
        ELSE \E i \in StrongMatches :
                /\ \A j \in StrongMatches : i <= j
                /\ found.val = Some(index.index[found.weak_hash][i].offset)
\* a target block whose weak hash is in the index and whose content hash is
\* not: the collision is rejected
C17_Witness ==
    /\ found # NoValue /\ found.op = "find_verified_match"
    /\ found.weak_hash = WeakHash(index.block_size, found.target_block)
    /\ found.weak_hash \in DOMAIN index.index
    /\ found.val = None
\* two entries under the weak hash asked for match: the first one is returned
C17_FirstOfSeveral ==
    /\ found # NoValue /\ found.op = "find_verified_match"
    /\ Cardinality(StrongMatches) >= 2
    /\ found.val = Some(0)

\* of two entries under the weak hash asked for, the first has another
\* content hash and the second one matches: its offset is returned
C17_SecondOfColliding ==
    /\ found # NoValue /\ found.op = "find_verified_match"
    /\ StrongMatches = {2}
    /\ found.val = Some(index.block_size)

\* the source blocks with the content of `window`, by block number
MatchingBlocks(window) == {k \in 0..(FedBlocks - 1) : FedBlock(k) = window}

\* C18: lookup returns the entries under a weak hash in insertion order,
\* which is strictly increasing source offset; when several source blocks are
\* candidates for a target window and some of them match it, the COPY emitted
\* for the window refers to the lowest source offset among those that match.
C18_LowestMatchingOffset ==
    (phase = "target" /\ diff # NoValue) =>
        /\ \A w \in DOMAIN index.index :
            \A i, j \in 1..Len(lookup(index, w)) :
                i < j => lookup(index, w)[i].offset < lookup(index, w)[j].offset
        /\ \A i \in 1..Len(diff.instructions) :
            LET instruction == diff.instructions[i]
                window == TargetWindow(diff.instructions, i)
                candidates == lookup(index, WeakHash(index.block_size, window))
            IN  (/\ instruction.type = "Copy"
                 /\ Len(candidates) >= 2
                 /\ MatchingBlocks(window) # {}) =>
                    \E k \in MatchingBlocks(window) :
                        /\ instruction.offset = k * index.block_size
                        /\ \A m \in MatchingBlocks(window) : k <= m

\* C19: once the source of a PatchBuilder is finalized, by finalize_source or
\* by the first add_target_chunk, a later add_source_chunk leaves the block
\* index (the builder's and the one handed to the diff), source_size and the
\* source hash as they were; the first add_target_chunk finalizes the source.
C19_SourceFrozen ==
    [][/\ (builder.source_finalized /\ bret'.op = "add_source_chunk") =>
            /\ builder'.source_index = builder.source_index
            /\ builder'.diff = builder.diff
            /\ builder'.source_size = builder.source_size
            /\ HashBuilder_finalize(builder'.source_hasher)
                    = HashBuilder_finalize(builder.source_hasher)
            /\ builder'.source_finalized
       /\ bret'.op = "add_target_chunk" => builder'.source_finalized
       /\ (builder.source_finalized /\ bret'.op # "reset") =>
            builder'.source_finalized]_vars
\* bytes were handed to add_source_chunk after the first target chunk had
\* finalized a source that holds a block
C19_Witness ==
    /\ bret.op = "add_source_chunk" /\ bret.chunk # <<>>
    /\ builder.source_finalized
    /\ builder.target_size > 0
    /\ builder.source_size >= builder.chunk_size

\* C20: flush_output(max) returns, and returns at most max bytes, in every
\* state of the builder and for every max, a max below the 33 bytes of the
\* header on the first call included.
C20_FlushAtMostMax ==
    bret.op = "flush_output" => (bret.kind = "Ok" /\ Len(bret.val) <= bret.max_size)

\* the length of the header
HeaderLen == Len(BuilderHeader(builder))

C22_HeaderContent ==
    (/\ bret # NoValue /\ bret.kind # "Panic"
     /\ builder.header_written
     /\ builder.source_finalized /\ builder.target_finalized) =>
        Slice(bhist.flushed, 0, HeaderLen)
            = MAGIC \o <<VERSION>> \o to_le_bytes(builder.chunk_size, 4)
                    \o to_le_bytes(Len(bhist.source), 8)
                    \o calculate_hash(bhist.source)
                    \o to_le_bytes(builder.target_total_size, 8)

\* C23: reset() returns to the initial state: after PatchBuilder::reset()
\* every field of the builder equals that of PatchBuilder::new(), and after
\* PatchApplier::reset() the applier equals PatchApplier::new(), whatever
\* was called before.
C23_ResetIsNew ==
    /\ (bret # NoValue /\ bret.op = "reset") => builder = PatchBuilder_new
    /\ (ret # NoValue /\ ret.op = "reset") => applier = PatchApplier_new
\* a builder whose every field had left its initial value has been reset
C23_Witness == bret # NoValue /\ bret.op = "reset" /\ bret.used
\* an applier whose every field had left its initial value has been reset
C23_ApplierWitness == ret # NoValue /\ ret.op = "reset" /\ ret.used

\* C24: are_files_identical() returns true exactly when as many source bytes
\* were accepted as target bytes were fed and the FNV-1a of the two byte
\* strings is the same; so it is true when source and target are the same
\* bytes, and false when their sizes differ.
C24_AreFilesIdentical ==
    (bret # NoValue /\ bret.op = "are_files_identical") =>
        /\ bret.val = (/\ Len(bhist.source) = Len(bhist.target)
                       /\ calculate_hash(bhist.source) = calculate_hash(bhist.target))
        /\ bhist.source = bhist.target => bret.val
        /\ Len(bhist.source) # Len(bhist.target) => ~bret.val
\* source and target, fed in several chunks, are the same bytes
C24_Witness ==
    /\ bret # NoValue /\ bret.op = "are_files_identical" /\ bret.val
    /\ Len(bhist.source) >= 2 /\ bhist.source = bhist.target
    /\ builder.source_finalized /\ builder.target_finalized
\* source and target of the same size and different bytes
C24_SameSizeOnly ==
    /\ bret # NoValue /\ bret.op = "are_files_identical" /\ ~bret.val
    /\ Len(bhist.source) = Len(bhist.target)

\* the calls that need a loaded patch
NeedPatch == {"prepare", "validate_source", "expected_source_size", "expected_target_size"}

EagerResult == apply_patch(merge(applier.source_buffer), deserialize(applier.patch_data).val)

\* C25: for a patch that parses and a source that it matches, fed in any
\* chunking, every next_output_chunk(max_size) with max_size >= 1 returns at
\* most max_size bytes, the bytes returned so far are the first bytes of what
\* apply_patch returns, and all of them once has_more_output() is false.
C25_ApplierRefinesApply ==
    (/\ ret # NoValue /\ applier.prepared
     /\ deserialize(applier.patch_data).ok
     /\ EagerResult.kind = "Ok") =>
        /\ Len(emitted) <= Len(EagerResult.output)
        /\ emitted = Slice(EagerResult.output, 0, Len(emitted))
        /\ ~has_more_output(applier) => emitted = EagerResult.output
        /\ ret.op = "next_output_chunk" =>
                ret.kind = "Ok" /\ Len(ret.val) <= ret.max_size
\* a two-byte source fed in two chunks; the target was drained in several
\* calls, the last of them ending inside the budget
C25_Witness ==
    /\ ret # NoValue /\ ret.op = "next_output_chunk" /\ applier.prepared
    /\ deserialize(applier.patch_data).ok /\ EagerResult.kind = "Ok"
    /\ Len(applier.source_buffer.chunks) = 2 /\ applier.source_buffer.total_size = 2
    /\ ~has_more_output(applier)
    /\ Len(applier.instructions) = 2
    /\ applier.instructions[1].type = "Copy" /\ applier.instructions[1].length = 2
    /\ Len(emitted) = 4 /\ Len(ret.val) = 1 /\ ret.max_size = 3

\* the instructions are COPYs only, and their lengths add up to `size`
OnlyCopies(is, size) ==
    /\ \A i \in 1..Len(is) : is[i].type = "Copy"
    /\ TotalLen(is) = size

\* C27: when the target is the source and its length is a positive multiple
\* of the block size, the patch made by generate_patch_with_chunk_size, and
\* the one made by StreamingDiff whatever the chunks the target came in, has
\* COPY instructions only, whose lengths add up to the length of the source.
C27_IdentityOnlyCopies ==
    /\ (/\ pc \in {"patch", "applied"} /\ source = target
        /\ Len(source) > 0 /\ Len(source) % chunk_size = 0) =>
            OnlyCopies(patch.instructions, Len(source))
    /\ (/\ phase = "done" /\ source_fed = target_fed
        /\ Len(source_fed) > 0 /\ Len(source_fed) % index.block_size = 0) =>
            OnlyCopies(instructions, Len(source_fed))
\* a source of two blocks was diffed with itself by generate_patch
C27_Witness ==
    /\ pc = "patch" /\ source = target /\ chunk_size = 2 /\ Len(source) = 4
    /\ Len(patch.instructions) = 2
\* a source of two blocks was diffed with itself by StreamingDiff
C27_StreamWitness ==
    /\ phase = "done" /\ source_fed = target_fed /\ index.block_size = 2
    /\ Len(source_fed) = 4 /\ Len(instructions) = 2

\* the range [offset, offset + length) lies in the bytes pushed
InBuffer(offset, length) == offset <= buffer.total_size - length

\* C28: read_at(offset, length) returns None exactly when offset + length is
\* more than the number of bytes pushed, and otherwise Some of the `length`
\* bytes at [offset, offset + length) of the chunks end to end, whatever the
\* chunks, empty ones included.
C28_ReadAt ==
    (bufret # NoValue /\ bufret.op = "read_at") =>
        /\ bufret.kind = "Ok"
        /\ ~bufret.val.some <=> ~InBuffer(bufret.offset, bufret.length)
        /\ bufret.val.some =>
                bufret.val.val = Slice(merge(buffer), bufret.offset,
                                       bufret.offset + bufret.length)
\* the same, for the calls in which offset + length does not overflow
C28_ReadAtWithoutOverflow ==
    (/\ bufret # NoValue /\ bufret.op = "read_at"
     /\ ~AddOverflows(bufret.offset, bufret.length)) =>
        /\ bufret.kind = "Ok"
        /\ ~bufret.val.some <=> ~InBuffer(bufret.offset, bufret.length)
        /\ bufret.val.some =>
                bufret.val.val = Slice(merge(buffer), bufret.offset,
                                       bufret.offset + bufret.length)
\* a read across three chunks, one of them empty
C28_AcrossChunks ==
    /\ bufret # NoValue /\ bufret.op = "read_at" /\ bufret.kind = "Ok"
    /\ buffer.chunks = <<<<0>>, <<>>, <<255, 0>>>>
    /\ bufret.offset = 0 /\ bufret.length = 3 /\ bufret.val = Some(<<0, 255, 0>>)
\* a read from usize::MAX that returned Some
C28_SomePastTheEnd ==
    /\ bufret # NoValue /\ bufret.op = "read_at" /\ bufret.kind = "Ok"
    /\ bufret.offset = UsizeMax /\ bufret.length = 1 /\ bufret.val = Some(<<>>)

\* no INSERT without data, every COPY of `block_size` bytes (none of 0), no
\* INSERT next to an INSERT
WellFormed(is, block_size) ==
    /\ \A i \in 1..Len(is) :
        /\ is[i].type = "Insert" => is[i].data # <<>>
        /\ is[i].type = "Copy" => is[i].length = block_size /\ is[i].length > 0
    /\ \A i \in 1..(Len(is) - 1) : ~(is[i].type = "Insert" /\ is[i + 1].type = "Insert")

\* C29: a patch made by generate_patch_with_chunk_size or returned by
\* StreamingDiff::finalize has no INSERT with empty data, no COPY of length
\* 0 (every COPY has the block size as its length) and no two INSERTs in a
\* row; add_insert with empty data leaves the patch as it is.
C29_WellFormedInstructions ==
    /\ pc \in {"patch", "applied"} => WellFormed(patch.instructions, chunk_size)
    /\ phase = "done" => WellFormed(instructions, index.block_size)
    /\ add_insert(patch, <<>>) = patch
\* generate_patch made INSERT, COPY, INSERT
C29_Witness ==
    /\ pc = "patch" /\ Len(patch.instructions) = 3
    /\ patch.instructions[1].type = "Insert" /\ patch.instructions[2].type = "Copy"
    /\ patch.instructions[3].type = "Insert"
\* StreamingDiff made INSERT, COPY, INSERT from a target fed byte by byte
C29_StreamWitness ==
    /\ phase = "done" /\ Len(instructions) = 3
    /\ instructions[1].type = "Insert" /\ Len(instructions[1].data) = 2
    /\ instructions[2].type = "Copy" /\ instructions[3].type = "Insert"
\* add_insert was called with empty data on a patch built by hand
C29_AddInsertEmpty ==
    [][(pc = "patch" /\ pc' = "patch" /\ Len(patch'.instructions) > Len(patch.instructions))
        => patch'.instructions[Len(patch'.instructions)] # InsertInstr(<<>>)]_vars

\* the matches of the eager path for the inputs at hand: as find_matches
\* returns them, and as optimize_macthes keeps them
FoundMatches == find_matches(BlockMatcher_new(source, chunk_size), target)
KeptMatches == optimize_macthes(FoundMatches)
\* the position in the target at which instruction i starts
StartOf(is, i) == TotalLen(SubSeq(is, 1, i - 1))
\* the instructions cover the target end to end: each INSERT carries the
\* target bytes at its position, each COPY stands at a position in `at`,
\* and together they are as long as the target
Tiles(is, tgt, at) ==
    /\ TotalLen(is) = Len(tgt)
    /\ \A i \in 1..Len(is) :
        /\ is[i].type = "Insert" =>
                is[i].data = Slice(tgt, StartOf(is, i), StartOf(is, i) + Len(is[i].data))
        /\ is[i].type = "Copy" => StartOf(is, i) \in at
\* `kept` is `sorted` without the matches that start before the end of the
\* last match kept before them
KeptGreedily(sorted, kept) ==
    LET K == {i \in 1..Len(sorted) : \E k \in 1..Len(kept) : kept[k] = sorted[i]}
        Before(i) == {j \in K : j < i}
        LastEnd(i) ==
            IF Before(i) = {} THEN 0
            ELSE LET j == CHOOSE x \in Before(i) : \A y \in Before(i) : y <= x
                 IN  sorted[j].target_offset + sorted[j].length
    IN  /\ \A i \in 1..Len(sorted) : i \in K <=> sorted[i].target_offset >= LastEnd(i)
        /\ Cardinality(K) = Len(kept)
        /\ \A k \in 1..(Len(kept) - 1) : kept[k].target_offset < kept[k + 1].target_offset

\* C30: the instructions of a produced patch cover the target in order,
\* without gap or overlap; optimize_macthes keeps, in increasing target
\* order, exactly the matches that start at or after the end of the match
\* kept before; StreamingDiff moves its target position by the block size
\* on a match and by one otherwise.
C30_NoOverlap ==
    /\ pc \in {"patch", "applied"} =>
        LET ms == FoundMatches
            optimized == optimize_macthes(ms)
            starts == {optimized[k].target_offset : k \in 1..Len(optimized)}
        IN  /\ Tiles(patch.instructions, target, starts)
            /\ KeptGreedily(SortByTargetOffset(ms), optimized)
    /\ phase = "done" =>
            Tiles(instructions, target_fed, 0..Len(target_fed))
    /\ phase \in {"target", "done"} =>
        /\ diff.target_position = TotalLen(diff.instructions)
        /\ diff.target_position + Len(diff.pending_insert) = Len(target_fed)
        /\ \A chunk \in BytesUpTo(MaxChunk) :
            LET before == [diff EXCEPT !.pending_insert = @ \o chunk]
                after == try_match_block(before)
                moved == after.target_position - before.target_position
            IN  IF Len(before.pending_insert) < before.block_size THEN moved = 0
                ELSE IF Len(after.instructions) > Len(before.instructions)
                        /\ after.instructions[Len(after.instructions)].type = "Copy"
                THEN moved = before.block_size
                ELSE moved = 1
\* two of three matches overlap and the second of them was dropped
C30_Witness ==
    /\ pc = "patch" /\ Len(FoundMatches) = 3 /\ Len(KeptMatches) = 2
    /\ chunk_size = 2 /\ Len(target) = 4
\* StreamingDiff has matched a block after inserting a byte
C30_StreamWitness ==
    /\ phase = "target" /\ diff.block_size = 2 /\ diff.target_position = 3
    /\ Len(diff.instructions) = 2 /\ diff.instructions[2].type = "Copy"

\* the offsets of the complete blocks of the source that equal the window
\* of the target at p
EqualBlocks(p) ==
    {o \in 0..Len(source) :
        /\ o % chunk_size = 0 /\ o + chunk_size <= Len(source)
        /\ p + chunk_size <= Len(target)
        /\ Slice(source, o, o + chunk_size) = Slice(target, p, p + chunk_size)}

\* C31: find_matches returns a match at target offset p exactly when the
\* window of the target at p equals a complete block of the source; the
\* source_offset reported is the offset of such a block, the length is the
\* block size, the matches come by strictly increasing target_offset, and
\* there is none when target or source is shorter than a block.
C31_FindMatches ==
    pc \in {"patch", "applied"} =>
        LET ms == FoundMatches
        IN  /\ \A p \in 0..Len(target) :
                (\E i \in 1..Len(ms) : ms[i].target_offset = p) <=> EqualBlocks(p) # {}
            /\ \A i \in 1..Len(ms) :
                /\ ms[i].source_offset \in EqualBlocks(ms[i].target_offset)
                /\ ms[i].length = chunk_size
            /\ \A i \in 1..(Len(ms) - 1) : ms[i].target_offset < ms[i + 1].target_offset
            /\ (Len(target) < chunk_size \/ Len(source) < chunk_size) => ms = <<>>
\* a block of the source was found at an offset of the target that is not a
\* multiple of the block size, and at no other
C31_Witness ==
    /\ pc = "patch" /\ chunk_size = 2 /\ Len(source) = 4 /\ Len(target) = 4
    /\ Len(FoundMatches) = 1
    /\ FoundMatches[1].target_offset = 1 /\ FoundMatches[1].source_offset = 2

\* the StreamingDiff that was given the whole target fed so far as one chunk
InOneChunk ==
    process_target_chunk(StreamingDiff_new(index, Len(source_fed)), target_fed)

\* C32: for an index and a target, the instructions returned by
\* StreamingDiff::finalize are the same whatever the chunks the target was
\* cut into: those returned when the target is given as one chunk.
C32_ChunkingDeterminism ==
    /\ phase = "target" => diff = InOneChunk
    /\ phase = "done" => instructions = StreamingDiff_finalize(InOneChunk)
\* a target of one block, longer than any chunk, was matched
C32_Witness ==
    /\ phase = "done" /\ index.block_size = 4 /\ Len(target_fed) = 4
    /\ Len(target_fed) > MaxChunk
    /\ Len(instructions) = 1 /\ instructions[1].type = "Copy"

\* bytes_processed()
bytes_processed(sd) == sd.target_position

\* C33: after every process_target_chunk the StreamingDiff retains fewer
\* target bytes than two blocks, and fewer than one, and bytes_processed()
\* plus the bytes retained is the number of target bytes fed so far.
C33_BoundedRetained ==
    phase = "target" =>
        /\ Len(diff.pending_insert) < 2 * diff.block_size
        /\ Len(diff.pending_insert) < diff.block_size
        /\ bytes_processed(diff) + Len(diff.pending_insert) = Len(target_fed)
\* two bytes are retained, one short of a block, after a byte was processed
C33_Witness ==
    /\ phase = "target" /\ diff.block_size = 3
    /\ Len(diff.pending_insert) = 2 /\ bytes_processed(diff) = 1

\* the sum of the lengths of the first n instructions of the applier
RECURSIVE LengthsUpTo(_, _)
LengthsUpTo(ap, n) ==
    IF n = 0 THEN 0 ELSE ap.instructions[n].length + LengthsUpTo(ap, n - 1)
\* every COPY of the applier's instructions ends inside the source fed
AllCopiesInBounds(ap) ==
    \A i \in 1..Len(ap.instructions) : ~CopyPastSource(ap, ap.instructions[i])

\* C34: once prepare has succeeded, current_instruction is at most the
\* number of instructions, instruction_offset at most the length of the
\* current instruction and 0 past the last one; when every COPY is in
\* bounds, output_written is the length of the instructions before the
\* current one plus instruction_offset, and at most the length of all.
C34_CursorInvariant ==
    (ret # NoValue /\ applier.prepared) =>
        LET n == Len(applier.instructions)
            c == applier.current_instruction
        IN  /\ c <= n
            /\ c < n => applier.instruction_offset <= applier.instructions[c + 1].length
            /\ c = n => applier.instruction_offset = 0
            /\ AllCopiesInBounds(applier) =>
                /\ applier.output_written
                        = LengthsUpTo(applier, c) + applier.instruction_offset
                /\ applier.output_written <= LengthsUpTo(applier, n)
\* the cursor stands inside the second instruction, after a COPY of two
\* bytes and one byte of an INSERT
C34_Witness ==
    /\ ret # NoValue /\ applier.prepared /\ AllCopiesInBounds(applier)
    /\ Len(applier.instructions) = 2 /\ applier.instructions[1].type = "Copy"
    /\ applier.current_instruction = 1 /\ applier.instruction_offset = 1
    /\ applier.output_written = 3

\* the part of C34 on the cursor alone, whatever the patch and the source
C34_CursorInRange ==
    (ret # NoValue /\ applier.prepared) =>
        LET n == Len(applier.instructions)
            c == applier.current_instruction
        IN  /\ c <= n
            /\ c < n => applier.instruction_offset <= applier.instructions[c + 1].length
            /\ c = n => applier.instruction_offset = 0

\* the patch of the applier parses, apply_patch accepts it for the source
\* fed, and none of its instructions is empty
WellFormedPatch ==
    /\ deserialize(applier.patch_data).ok
    /\ EagerResult.kind = "Ok"
    /\ \A i \in 1..Len(applier.instructions) : applier.instructions[i].length > 0

\* C35: after a successful prepare, every next_output_chunk(max_size) with
\* max_size >= 1 made while has_more_output() is true moves the cursor
\* (current_instruction, instruction_offset) forward, and returns at least
\* one byte when the patch is well-formed; a caller that goes on calling
\* comes to has_more_output() false.
C35_DrainTerminates ==
    /\ [][(/\ ret' # NoValue /\ ret'.op = "next_output_chunk" /\ ret'.max_size >= 1
           /\ has_more_output(applier)) =>
            /\ \/ applier'.current_instruction > applier.current_instruction
               \/ /\ applier'.current_instruction = applier.current_instruction
                  /\ applier'.instruction_offset > applier.instruction_offset
            /\ WellFormedPatch => Len(ret'.val) >= 1
         ]_vars
    /\ (ret # NoValue /\ applier.prepared) ~> ~has_more_output(applier)
\* the last call of a drain of several calls has returned the last byte
C35_Witness ==
    /\ ret # NoValue /\ ret.op = "next_output_chunk" /\ ret.max_size = 1
    /\ applier.prepared /\ WellFormedPatch /\ ~has_more_output(applier)
    /\ Len(ret.val) = 1 /\ Len(emitted) = 4
\* a call has moved past a COPY of no byte and returned nothing
C35_EmptyCall ==
    /\ ret # NoValue /\ ret.op = "next_output_chunk" /\ ret.max_size = 1
    /\ applier.prepared /\ ret.val = <<>> /\ emitted # <<>>
    /\ deserialize(applier.patch_data).ok /\ EagerResult.kind = "Ok"
    /\ Len(applier.instructions) = 2 /\ applier.instructions[2].length = 0
    /\ applier.current_instruction = 2

\* C36: after finalize_target, with flush_output(max_size >= 33) the only
\* call made, has_output() becomes false; once it is false after
\* finalize_target a flush_output returns no byte and leaves it false; and
\* has_output() is false exactly when the header and every byte pulled into
\* the output buffer have been returned by flush_output.
C36_BuilderDrain ==
    /\ [](PatchBuilder_has_output(builder) <=>
            (~builder.header_written \/ builder.output_buffer # <<>>))
    /\ [](~PatchBuilder_has_output(builder) <=>
            Len(bhist.flushed) = 33 + Len(bhist.pulled))
    /\ builder.target_finalized ~> ~PatchBuilder_has_output(builder)
    /\ [][(/\ builder.target_finalized /\ ~PatchBuilder_has_output(builder)
           /\ bret'.op = "flush_output") =>
            /\ bret'.val = <<>> /\ bret'.kind = "Ok"
            /\ ~PatchBuilder_has_output(builder')]_vars
\* the drain is over: the last call returned nothing, the calls before it
\* returned the header and the instructions of a three-byte target
C36_Witness ==
    /\ builder.target_finalized /\ ~PatchBuilder_has_output(builder)
    /\ bret.op = "flush_output" /\ bret.val = <<>>
    /\ Len(bhist.target) = 3 /\ Len(bhist.pulled) > 13
    /\ bhist.flushed = BuilderHeader(builder) \o bhist.pulled
\* a call after finalize_target returned the header alone, with instructions
\* left in the output buffer
C36_HeaderFirst ==
    /\ builder.target_finalized /\ PatchBuilder_has_output(builder)
    /\ bret.op = "flush_output" /\ bret.max_size = 33
    /\ bret.val = BuilderHeader(builder) /\ builder.output_buffer # <<>>

\* C37: right after a prepare() that returned an error has_more_output() is
\* false, and a next_output_chunk that returned bytes took its instructions
\* from the patch data the applier holds.
C37_FailedPrepareNoOutput ==
    /\ (ret.op = "prepare" /\ ret.kind = "Err") => ~has_more_output(applier)
    /\ (ret.op = "next_output_chunk" /\ ret.val # <<>>) =>
            /\ parse(applier.patch_data).ok
            /\ applier.instructions = parse(applier.patch_data).val.instructions
\* an applier that was never prepared gives no output after a failed prepare
C37_NeverPrepared ==
    ~applier.prepared =>
        /\ ~has_more_output(applier)
        /\ ret.op = "next_output_chunk" => ret.val = <<>>
\* bytes were returned while the patch data held is less than a header:
\* the instructions are those of the patch set before
C37_StaleTable ==
    /\ ret.op = "next_output_chunk" /\ ret.kind = "Ok" /\ ret.val # <<>>
    /\ applier.patch_loaded /\ ~parse(applier.patch_data).ok
    /\ prepare_result(applier).kind = "Err"
\* the INSERT of the earlier patch is read in the shorter patch data
C37_StalePanic ==
    /\ ret.op = "next_output_chunk" /\ ret.kind = "Panic"
    /\ ~parse(applier.patch_data).ok

\* C38: sum_a and sum_b are below the modulus after every hash_chunk on a
\* window of window_size bytes and after every roll, for window sizes up to
\* MaxWindow; every value computed on the way is a value of u32; and the
\* digest is sum_b * 65536 + sum_a, both halves below 65536.
C38_ArithmeticInRange ==
    /\ [](/\ rh.sum_a \in 0..(MODULUS - 1) /\ rh.sum_b \in 0..(MODULUS - 1)
          /\ rh.sum_a < 65536 /\ rh.sum_b < 65536
          /\ win # <<>> => rh_ret = <<rh.sum_b, rh.sum_a>>)
    /\ [][(rolls' = 0 /\ win' # <<>>) =>
            LET t == HashChunkSteps(
                        [rh |-> [rh EXCEPT !.sum_a = 0, !.sum_b = 0],
                         ok |-> TRUE], win', 0, Len(win'))
            IN  Len(win') = rh.window_size /\ t.rh = rh' /\ t.ok
         ]_vars
    /\ [][(rolls' = rolls + 1) =>
            LET r == RollSteps(rh, win[rolls + 1], win'[Len(win')])
            IN  r.rh = rh' /\ r.ok
         ]_vars
\* the largest window, filled with 0xFF, has been seeded and rolled
C38_Witness ==
    /\ rh.window_size = MaxWindow /\ rolls = MaxRoll
    /\ Len(win) = MaxWindow + MaxRoll
    /\ \A i \in 1..Len(win) : win[i] = 255

\* offset + length, as a number, is more than size
PastEnd(offset, length, size) ==
    AddOverflows(offset, length) \/ offset + length > size
\* offset + length fits usize and is more than size
PastEndWithoutOverflow(offset, length, size) ==
    ~AddOverflows(offset, length) /\ offset + length > size
\* the first COPY of the patch whose range ends past the source, 0 if none
FirstPastEnd ==
    LET past == {i \in 1..Len(patch.instructions) :
                    PastEnd(patch.instructions[i].offset,
                            patch.instructions[i].length, Len(source))}
    IN  IF past = {} THEN 0 ELSE CHOOSE i \in past : \A j \in past : i <= j

\* C39: when offset + length of a COPY is more than the length of the
\* source, whether or not the sum fits usize, apply_patch returns
\* CopyOutOfBounds and read_at returns None; neither panics.
C39_CopyBoundsSound ==
    /\ (pc = "applied" /\ FirstPastEnd > 0) =>
            /\ result.kind = "Err" /\ result.err.kind = "CopyOutOfBounds"
            /\ result.err.instruction_index = FirstPastEnd - 1
    /\ (bufret.op = "read_at"
            /\ PastEnd(bufret.offset, bufret.length, buffer.total_size)) =>
            bufret.kind = "Ok" /\ ~bufret.val.some
\* the same for the COPYs whose offset + length fits usize
C39_WithoutOverflow ==
    /\ (/\ pc = "applied" /\ FirstPastEnd > 0
        /\ ~AddOverflows(patch.instructions[FirstPastEnd].offset,
                         patch.instructions[FirstPastEnd].length)) =>
            /\ result.kind = "Err" /\ result.err.kind = "CopyOutOfBounds"
            /\ result.err.instruction_index = FirstPastEnd - 1
    /\ (bufret.op = "read_at"
            /\ PastEndWithoutOverflow(bufret.offset, bufret.length,
                                      buffer.total_size)) =>
            bufret.kind = "Ok" /\ ~bufret.val.some
\* apply_patch panicked on a COPY whose offset + length overflows
C39_ApplyPanics ==
    /\ pc = "applied" /\ result.kind = "Panic" /\ FirstPastEnd > 0
    /\ AddOverflows(patch.instructions[FirstPastEnd].offset,
                    patch.instructions[FirstPastEnd].length)
\* read_at returned Some for a range that overflows
C39_ReadAtSome ==
    /\ bufret.op = "read_at" /\ bufret.kind = "Ok" /\ bufret.val.some
    /\ AddOverflows(bufret.offset, bufret.length)

============================================================================
